---- MODULE Spec2Model ----
(***************************************************************************)
(* Model of the persistent task scheduler of scripts/programador_tareas.py *)
(* (class TaskScheduler): the security gate, the executor, the trigger     *)
(* registry kept by the `schedule` library's default scheduler, the        *)
(* scheduler loop and the SQLite task store.                               *)
(*                                                                         *)
(* Text is modelled as a sequence of one-character strings, time as a      *)
(* whole number of seconds on a simulated clock, an ISO timestamp by the   *)
(* clock value it was formatted from (isoformat is order preserving), and  *)
(* an empty string field or an SQL NULL by explicit values (EmptyStr,      *)
(* Null) so that the two stay distinguishable.                             *)
(***************************************************************************)
EXTENDS Integers, Sequences, FiniteSets, TLC

----------------------------------------------------------------------------
(* Bounds of the model.                                                    *)

\* Number of tasks handed to schedule_task in one run.
MaxTasks == 2

\* The simulated clock stops starting new ticks after this many seconds.
MaxTime == 360

\* Dispatches (calls of _execute_task by a job) in one run, all tasks together.
MaxRuns == 4

\* schedule_task is called up to this clock value.
MaxRegTime == 0

\* Length of the command strings enumerated for the security gate.
MaxLen == 3

\* Days on the clock of the store models (SpecStore, SpecSweep).
MaxDays == 61

\* Runs by id (--run) in one run of the store models.
MaxStoreRuns == 2

\* Tasks created in one run of the store models.
MaxStoreTasks == 1
\* Threads and processes that run tasks, and how far their clock runs.
MaxThreads == 4
MaxThreadTime == 60
MaxIds == 2

----------------------------------------------------------------------------
(* Program constants.                                                      *)

\* config_default["scheduler"]["check_interval_seconds"]
CheckInterval == 60

\* subprocess.run(..., timeout=300)
Timeout == 300

\* config_default["scheduler"]["cleanup_completed_days"]
CleanupDays == 30

\* timedelta(days=1), in seconds
DaySeconds == 86400

\* self.scheduler_thread.join(timeout=5)
JoinTimeout == 5
\* config["scheduler"]["max_concurrent_tasks"]
MaxConcurrentTasks == 3

----------------------------------------------------------------------------
(* Text.                                                                   *)

\* The characters str.split() treats as separators that occur in the model.
Whitespace == {" ", "\t"}

\* Python: `needle in hay` for two strings.
Contains(hay, needle) ==
    \E i \in 0..(Len(hay) - Len(needle)) :
        \A k \in 1..Len(needle) : hay[i + k] = needle[k]

\* Python: command.split()[0]; the caller guarantees a non-blank string.
RECURSIVE TakeToken(_)
TakeToken(s) ==
    IF s = <<>> \/ Head(s) \in Whitespace THEN <<>>
    ELSE <<Head(s)>> \o TakeToken(Tail(s))

RECURSIVE SkipSpace(_)
SkipSpace(s) ==
    IF s # <<>> /\ Head(s) \in Whitespace THEN SkipSpace(Tail(s)) ELSE s

\* Python: len(command.split()) = 0
IsBlank(s) == SkipSpace(s) = <<>>

SplitFirst(s) == TakeToken(SkipSpace(s))

\* Python: `' ' in command`
HasSpace(s) == \E i \in 1..Len(s) : s[i] = " "

----------------------------------------------------------------------------
(* Security gate: TaskScheduler._check_command_security.                   *)
(* The result is "True" or "False" for the value returned, or "IndexError" *)
(* when command.split()[0] is evaluated on a command made of blanks only   *)
(* and the exception leaves the function.                                  *)

CheckAllowFirst(allowedCmds, blockedCmds, command) ==
    IF HasSpace(command) /\ IsBlank(command) THEN "IndexError"
    ELSE LET cmd_base == IF HasSpace(command) THEN SplitFirst(command)
                         ELSE command
         IN  IF allowedCmds # {} /\ cmd_base \in allowedCmds THEN "True"
             ELSE IF \E b \in blockedCmds : Contains(command, b) THEN "False"
             ELSE IF allowedCmds # {} THEN "False"
             ELSE "True"

CheckCommandSecurity(allowedCmds, blockedCmds, command) ==
    IF \E b \in blockedCmds : Contains(command, b) THEN "False"
    ELSE IF HasSpace(command) /\ IsBlank(command) THEN "IndexError"
    ELSE LET cmd_base == IF HasSpace(command) THEN SplitFirst(command)
                         ELSE command
         IN  IF allowedCmds # {} /\ cmd_base \notin allowedCmds THEN "False"
             ELSE "True"

----------------------------------------------------------------------------
(* Data model: class Task and the rows of the tasks table.                 *)

\* Task.id = None before the first save.
None == 0

\* "" in a text field of a Task (falsy in Python).
EmptyStr == <<>>

\* An SQL NULL, and a stored value v, in a column of a row.
Null == <<>>
Some(v) == <<v>>

\* json.dumps of a list or dict, kept apart from the value it encodes.
JsonDumps(is, v) == [is |-> is, json |-> v]
JsonLoads(cell) == cell.json
\* json.loads raises on a text that is no JSON document.
JsonParses(cell) == cell.is # "invalid"

\* ISO timestamp of clock value t (a non-empty string).
IsoFormat(t) == <<t>>
FromIsoFormat(text) == text[1]

\* Commands of the tasks of the scheduler model.
TaskTypes == {"command", "script", "notification", "reminder"}
TriggerTypes == {"time", "interval", "file_change", "system_event"}
TaskStatuses == {"pending", "running", "completed", "failed", "cancelled"}
Echo == <<"e", "c", "h", "o">>
Mkfs == <<"m", "k", "f", "s">>
Kdialog == <<"k", "d", "i", "a", "l", "o", "g">>
NotifySend == <<"n", "o", "t", "i", "f", "y", "-", "s", "e", "n", "d">>

\* config_default["security"], cut down to the commands above.
DefaultAllowed == {Echo, Kdialog, NotifySend, <<"s", "h">>}
DefaultBlocked == {Mkfs, <<"r", "m", " ", "-", "r", "f", " ", "/">>}

SecurityDenied == "Comando bloqueado por seguridad"
TimeoutMarker == "Timeout (5 minutos)"

\* Task(...) as create_task_interactive builds it: status PENDING, no id.
\* action is <<task_type, command, arguments>>, trigger is <<trigger_type,
\* trigger_data>>.
NewTask(action, trigger, enabled, created) ==
    [id |-> None,
     task_type |-> action[1],
     command |-> action[2],
     arguments |-> action[3],
     trigger_type |-> trigger[1],
     trigger_data |-> trigger[2],
     status |-> "pending",
     created_at |-> IsoFormat(created),
     scheduled_for |-> IF "datetime" \in DOMAIN trigger[2]
                       THEN trigger[2].datetime ELSE EmptyStr,
     executed_at |-> EmptyStr,
     result_code |-> 0,
     output |-> "",
     enabled |-> enabled,
     notify_on_completion |-> TRUE,
     max_retries |-> 3,
     retry_count |-> 0]

----------------------------------------------------------------------------
(* Task store: the SQLite database, as [rows, seq, logs, fault]: the tasks *)
(* table, its AUTOINCREMENT counter, the execution_logs table, and what    *)
(* the database file does to a writer at present:                          *)
(*   "none"     statements and commit succeed                              *)
(*   "execute"  sqlite3.connect or cursor.execute raises (file not         *)
(*              writable, database locked)                                 *)
(*   "commit"   the statement succeeds and conn.commit() raises (disk      *)
(*              full, database busy); the transaction is lost              *)

\* rows maps the ids of the stored tasks to their rows.
EmptyStore ==
    [rows |-> <<>>, seq |-> 0, logs |-> <<>>, deps |-> {}, fault |-> "none"]

Faults == {"none", "execute", "commit"}

\* The columns written by both the INSERT and the UPDATE statement.
WrittenColumns(task) ==
    [task_type |-> Some(task.task_type),
     command |-> Some(task.command),
     arguments |-> Some(JsonDumps("list", task.arguments)),
     trigger_type |-> Some(task.trigger_type),
     trigger_data |-> Some(JsonDumps("dict", task.trigger_data)),
     status |-> Some(task.status),
     scheduled_for |-> Some(task.scheduled_for),
     enabled |-> Some(IF task.enabled THEN 1 ELSE 0),
     notify_on_completion |-> Some(IF task.notify_on_completion THEN 1 ELSE 0),
     max_retries |-> Some(task.max_retries),
     retry_count |-> Some(task.retry_count)]

\* INSERT INTO tasks (...): executed_at, result_code and output are not in
\* the column list and stay NULL.
InsertRow(task, t) ==
    [c \in DOMAIN WrittenColumns(task)
          \cup {"created_at", "executed_at", "result_code", "output"} |->
        CASE c = "created_at" ->
                 Some(IF task.created_at # EmptyStr THEN task.created_at
                      ELSE IsoFormat(t))
          [] c \in {"executed_at", "result_code", "output"} -> Null
          [] OTHER -> WrittenColumns(task)[c]]

\* UPDATE tasks SET ... WHERE id = ?: the columns of the SET list change.
UpdateRow(row, task) ==
    [c \in DOMAIN row |->
        IF c \in DOMAIN WrittenColumns(task) THEN WrittenColumns(task)[c]
        ELSE row[c]]

\* A mutant of SaveTaskToDb: every save inserts a new row.
SaveAlwaysInserts(store, task, t) ==
    IF store.fault # "none"
    THEN [store |-> store, task |-> task, ret |-> -1]
    ELSE LET id == store.seq + 1
         IN  [store |-> [store EXCEPT !.rows = (id :> InsertRow(task, t)) @@ @,
                                      !.seq = id],
              task |-> [task EXCEPT !.id = id],
              ret |-> id]

\* A mutant of SaveTaskToDb: the INSERT does not advance the AUTOINCREMENT
\* sequence, so the next new row gets the same id.
SaveKeepsSequence(store, task, t) ==
    IF store.fault = "execute"
    THEN [store |-> store, task |-> task, ret |-> -1]
    ELSE IF store.fault = "commit"
    THEN [store |-> store,
          task |-> IF task.id = None THEN [task EXCEPT !.id = store.seq + 1]
                   ELSE task,
          ret |-> -1]
    ELSE IF task.id = None
    THEN LET id == store.seq + 1
         IN  [store |-> [store EXCEPT !.rows = (id :> InsertRow(task, t)) @@ @],
              task |-> [task EXCEPT !.id = id],
              ret |-> id]
    ELSE [store |-> IF task.id \in DOMAIN store.rows
                    THEN [store EXCEPT !.rows[task.id] = UpdateRow(@, task)]
                    ELSE store,
          task |-> task,
          ret |-> task.id]

\* _save_task_to_db(task) at clock t: [store, task, ret].  An exception is
\* caught and -1 returned; task.id = cursor.lastrowid has been executed by
\* then when it was the commit that raised.
SaveTaskToDb(store, task, t) ==
    IF store.fault = "execute"
    THEN [store |-> store, task |-> task, ret |-> -1]
    ELSE IF store.fault = "commit"
    THEN [store |-> store,
          task |-> IF task.id = None THEN [task EXCEPT !.id = store.seq + 1]
                   ELSE task,
          ret |-> -1]
    ELSE IF task.id = None
    THEN LET id == store.seq + 1
         IN  [store |-> [store EXCEPT !.rows = (id :> InsertRow(task, t)) @@ @,
                                      !.seq = id],
              task |-> [task EXCEPT !.id = id],
              ret |-> id]
    ELSE [store |-> IF task.id \in DOMAIN store.rows
                    THEN [store EXCEPT !.rows[task.id] = UpdateRow(@, task)]
                    ELSE store,
          task |-> task,
          ret |-> task.id]

\* _log_execution(task_id, execution_time, duration, result_code, output);
\* an exception is caught and nothing is logged.
\* A mutant of LogExecution: one entry is kept for each task.
LogExecutionLatestOnly(store, task_id, execution_time, duration, result_code, output) ==
    IF store.fault # "none" THEN store
    ELSE LET IsOther(entry) == entry.task_id # task_id
         IN  [store EXCEPT !.logs =
                  Append(SelectSeq(@, IsOther),
                         [task_id |-> task_id,
                          execution_time |-> execution_time,
                          duration_seconds |-> duration,
                          result_code |-> result_code,
                          output |-> output])]

\* A mutant of LogExecution: the entry replaces the log.
LogExecutionReplaces(store, task_id, execution_time, duration, result_code, output) ==
    IF store.fault # "none" THEN store
    ELSE [store EXCEPT !.logs = <<[task_id |-> task_id,
                                   execution_time |-> execution_time,
                                   duration_seconds |-> duration,
                                   result_code |-> result_code,
                                   output |-> output]>>]

LogExecution(store, task_id, execution_time, duration, result_code, output) ==
    IF store.fault # "none" THEN store
    ELSE [store EXCEPT !.logs = Append(@, [task_id |-> task_id,
                                           execution_time |-> execution_time,
                                           duration_seconds |-> duration,
                                           result_code |-> result_code,
                                           output |-> output])]

\* What _load_task_from_db returns when no row has the id (Python None).
NoTask == [id |-> None]

\* Python: `cell if cell else default` for a column read back from a row:
\* NULL and the falsy value of the column's type both give the default.
OrDefault(cell, falsy, default) ==
    IF cell = Null THEN default
    ELSE IF cell[1] = falsy THEN default
    ELSE cell[1]

\* _load_task_from_db(task_id): the Task rebuilt from the row.
\* `row[n] if row[n] else default` of a JSON column: NULL and the empty
\* text are replaced by the text of the default document.
JsonCell(cell, default) ==
    IF cell = Null THEN default
    ELSE IF cell[1].is = "empty" THEN default ELSE cell[1]

ArgumentsCell(row) == JsonCell(row.arguments, JsonDumps("list", <<>>))
TriggerDataCell(row) == JsonCell(row.trigger_data, JsonDumps("dict", <<>>))

\* The conversions of a row that raise inside the try block: json.loads of
\* a text that is no JSON document, and the enum constructors of a value
\* that is no member.
RowRaises(row) ==
    \/ ~JsonParses(ArgumentsCell(row))
    \/ ~JsonParses(TriggerDataCell(row))
    \/ row.task_type[1] \notin TaskTypes
    \/ row.trigger_type[1] \notin TriggerTypes
    \/ row.status[1] \notin TaskStatuses

\* The Python types of the values that json.loads hands to Task(...).
LoadedTypes(store, task_id) ==
    [arguments |-> ArgumentsCell(store.rows[task_id]).is,
     trigger_data |-> TriggerDataCell(store.rows[task_id]).is]

LoadTaskFromDb(store, task_id) ==
    IF task_id \notin DOMAIN store.rows THEN NoTask
    ELSE IF RowRaises(store.rows[task_id]) THEN NoTask
    ELSE LET row == store.rows[task_id]
         IN  [id |-> task_id,
              task_type |-> row.task_type[1],
              command |-> row.command[1],
              arguments |-> JsonLoads(ArgumentsCell(row)),
              trigger_type |-> row.trigger_type[1],
              trigger_data |-> JsonLoads(TriggerDataCell(row)),
              status |-> row.status[1],
              created_at |-> row.created_at[1],
              scheduled_for |-> row.scheduled_for[1],
              executed_at |-> OrDefault(row.executed_at, EmptyStr, EmptyStr),
              result_code |-> OrDefault(row.result_code, 0, 0),
              output |-> OrDefault(row.output, "", ""),
              enabled |-> row.enabled[1] # 0,
              notify_on_completion |-> row.notify_on_completion[1] # 0,
              max_retries |-> OrDefault(row.max_retries, 0, 3),
              retry_count |-> OrDefault(row.retry_count, 0, 0)]

\* SQL: `column < ?` for a text column and an ISO timestamp: NULL compares
\* as unknown and selects nothing, '' sorts before every timestamp.
TextBefore(cell, t) ==
    IF cell = Null THEN FALSE
    ELSE IF cell[1] = EmptyStr THEN TRUE
    ELSE FromIsoFormat(cell[1]) < t

TerminalStatuses == {"completed", "failed", "cancelled"}

\* The rows of the second DELETE of cleanup_old_tasks with this cutoff.
SweptTasks(store, cutoff) ==
    {id \in DOMAIN store.rows :
        /\ store.rows[id].status[1] \in TerminalStatuses
        /\ TextBefore(store.rows[id].executed_at, cutoff)}

\* A mutant of CleanupOldTasks: the logs are compared with <= and the tasks
\* are deleted by age whatever their status.
CleanupByAgeOnly(store, t) ==
    IF store.fault # "none" THEN store
    ELSE LET cutoff == t - CleanupDays * DaySeconds
             IsKept(entry) == FromIsoFormat(entry.execution_time) > cutoff
             gone == {id \in DOMAIN store.rows :
                         TextBefore(store.rows[id].created_at, cutoff)}
         IN  [store EXCEPT
                !.logs = SelectSeq(@, IsKept),
                !.rows = [id \in (DOMAIN @) \ gone |-> @[id]]]

\* cleanup_old_tasks() at clock t: the store after the two DELETE statements;
\* an exception is caught and nothing is committed.
CleanupOldTasks(store, t) ==
    IF store.fault # "none" THEN store
    ELSE LET cutoff == t - CleanupDays * DaySeconds
             IsKept(entry) == ~TextBefore(Some(entry.execution_time), cutoff)
             gone == SweptTasks(store, cutoff)
         IN  [store EXCEPT
                !.logs = SelectSeq(@, IsKept),
                !.rows = [id \in (DOMAIN @) \ gone |-> @[id]]]

----------------------------------------------------------------------------
(* Executor: TaskScheduler._execute_task.                                  *)
(*                                                                         *)
(* What the environment does with a child process is an input, `outcome`:  *)
(*   [kind |-> "exit", code, out]  the child ended with that exit status   *)
(*                                 and that stdout + stderr                *)
(*   [kind |-> "timeout", ...]     subprocess.TimeoutExpired after 300 s   *)
(*   [kind |-> "error", ...]       subprocess.run raised something else    *)
(*                                 (OSError: no such file, no such cwd)    *)
(* The result is [store, task, ret, spawned, notes, elapsed, path]: ret is *)
(* the value returned ("True"/"False") or "IndexError" when the security   *)
(* check raised; spawned counts the child processes started for the task   *)
(* itself, notes lists the titles handed to _send_notification, path lists *)
(* the values assigned to task.status during the call, in order.           *)

Outcomes ==
    {[kind |-> "exit", code |-> 0, out |-> "ok", secs |-> 0,
      delivery |-> "ok"],
     [kind |-> "exit", code |-> 1, out |-> "", secs |-> 0,
      delivery |-> "ok"],
     [kind |-> "timeout", code |-> 0, out |-> "", secs |-> Timeout,
      delivery |-> "ok"],
     [kind |-> "error", code |-> 0, out |-> "OSError", secs |-> 0,
      delivery |-> "ok"]}

\* The same outcomes when the kdialog child of _send_notification cannot be
\* started (subprocess.run raises inside _send_notification).
DeliveryOutcomes ==
    Outcomes \cup {[o EXCEPT !.delivery = "fails"] : o \in Outcomes}

\* The child never exits.  subprocess.run(..., timeout=300) turns this into
\* the timeout outcome; a call without a timeout never returns.
Hang == [kind |-> "hang", code |-> 0, out |-> "", secs |-> 0,
         delivery |-> "ok"]

\* A mutant of SendNotification: the exception of the notifier is not caught.
SendNotificationUncaught(title, delivery) ==
    [sent |-> <<title>>, raised |-> delivery = "fails"]

\* Lines 541-550: _send_notification(title, message) with notify_kde set.
\* `sent` is the call made, `raised` whether an exception leaves the call.
SendNotification(title, delivery) ==
    [sent |-> <<title>>, raised |-> FALSE]

NotSent == [sent |-> <<>>, raised |-> FALSE]

\* str(e) of the exception of a notifier that cannot be started.
DeliveryError == "OSError"

\* Lines 412-415: the command line of the child, [task.command] +
\* task.arguments, written as one text with its words joined by spaces.
RECURSIVE JoinWords(_)
JoinWords(words) ==
    IF words = <<>> THEN <<>>
    ELSE IF Len(words) = 1 THEN words[1]
    ELSE words[1] \o <<" ">> \o JoinWords(Tail(words))

FullCommand(task) == JoinWords(<<task.command>> \o task.arguments)

\* Does this task start a child process of its own inside the try block?
SpawnsChild(task) ==
    \/ task.task_type \in {"command", "script"}
    \/ /\ task.task_type = "notification"
       /\ task.command \in {Kdialog, NotifySend}

Result(store, task, ret, spawned, notes, elapsed, path) ==
    [store |-> store, task |-> task, ret |-> ret, spawned |-> spawned,
     notes |-> notes, elapsed |-> elapsed, path |-> path]

\* Lines 533-539: except Exception.
FinishError(store, task, outcome, t) ==
    LET done == [task EXCEPT !.status = "failed",
                             !.output = outcome.out,
                             !.executed_at = IsoFormat(t + outcome.secs)]
        saved == SaveTaskToDb(store, done, t + outcome.secs)
    IN  Result(saved.store, saved.task, "False", 0, <<>>, outcome.secs,
               <<saved.task.status>>)

\* A mutant of FinishNormally: the test of the exit status is inverted.
FinishInverted(store, task, outcome, t) ==
    LET success == outcome.code # 0
        done == [task EXCEPT !.result_code = outcome.code,
                             !.output = outcome.out,
                             !.status = IF success THEN "completed"
                                        ELSE "failed",
                             !.executed_at = IsoFormat(t + outcome.secs)]
        saved == SaveTaskToDb(store, done, t + outcome.secs)
        logged == LogExecution(saved.store, saved.task.id,
                               saved.task.executed_at, outcome.secs,
                               saved.task.result_code, saved.task.output)
    IN  Result(logged, saved.task, IF success THEN "True" ELSE "False", 1,
               <<"Tarea Fallida">>, outcome.secs, <<saved.task.status>>)

\* A mutant of FinishNormally: a failure is counted in retry_count.
FinishCountsRetry(store, task, outcome, t) ==
    LET ran == task.task_type \in {"command", "script"}
        code == IF ran THEN outcome.code ELSE 0
        out == CASE ran -> outcome.out
                 [] task.task_type = "notification" -> "Notificación enviada"
                 [] OTHER -> "Recordatorio mostrado"
        success == code = 0
        duration == IF SpawnsChild(task) THEN outcome.secs ELSE 0
        done == [task EXCEPT !.result_code = code,
                             !.output = out,
                             !.status = IF success THEN "completed"
                                        ELSE "failed",
                             !.retry_count = IF success THEN @ ELSE @ + 1,
                             !.executed_at = IsoFormat(t + duration)]
        saved == SaveTaskToDb(store, done, t + duration)
        logged == LogExecution(saved.store, saved.task.id,
                               saved.task.executed_at, duration,
                               saved.task.result_code, saved.task.output)
        reminder == IF task.task_type = "reminder"
                    THEN SendNotification("Recordatorio", outcome.delivery)
                    ELSE NotSent
        final == IF success /\ task.notify_on_completion
                 THEN SendNotification("Tarea Completada", outcome.delivery)
                 ELSE IF ~success
                      THEN SendNotification("Tarea Fallida", outcome.delivery)
                      ELSE NotSent
        children == IF SpawnsChild(task) THEN 1 ELSE 0
        failure == [outcome EXCEPT !.out = DeliveryError, !.secs = duration]
    IN  IF reminder.raised
        THEN [FinishError(store, task, failure, t)
                  EXCEPT !.notes = reminder.sent]
        ELSE IF final.raised
             THEN [FinishError(logged, saved.task, failure, t)
                       EXCEPT !.spawned = children,
                              !.notes = reminder.sent \o final.sent,
                              !.path = <<saved.task.status>> \o @]
        ELSE Result(logged, saved.task, IF success THEN "True" ELSE "False",
                    children, reminder.sent \o final.sent, duration,
                    <<saved.task.status>>)

\* Lines 483-518: the child returned (or none was needed).
FinishNormally(store, task, outcome, t) ==
    LET ran == task.task_type \in {"command", "script"}
        code == IF ran THEN outcome.code ELSE 0
        out == CASE ran -> outcome.out
                 [] task.task_type = "notification" -> "Notificación enviada"
                 [] OTHER -> "Recordatorio mostrado"
        success == code = 0
        duration == IF SpawnsChild(task) THEN outcome.secs ELSE 0
        done == [task EXCEPT !.result_code = code,
                             !.output = out,
                             !.status = IF success THEN "completed"
                                        ELSE "failed",
                             !.executed_at = IsoFormat(t + duration)]
        saved == SaveTaskToDb(store, done, t + duration)
        logged == LogExecution(saved.store, saved.task.id,
                               saved.task.executed_at, duration,
                               saved.task.result_code, saved.task.output)
        reminder == IF task.task_type = "reminder"
                    THEN SendNotification("Recordatorio", outcome.delivery)
                    ELSE NotSent
        final == IF success /\ task.notify_on_completion
                 THEN SendNotification("Tarea Completada", outcome.delivery)
                 ELSE IF ~success
                      THEN SendNotification("Tarea Fallida", outcome.delivery)
                      ELSE NotSent
        children == IF SpawnsChild(task) THEN 1 ELSE 0
        failure == [outcome EXCEPT !.out = DeliveryError, !.secs = duration]
    IN  IF reminder.raised
        THEN [FinishError(store, task, failure, t)
                  EXCEPT !.notes = reminder.sent]
        ELSE IF final.raised
             THEN [FinishError(logged, saved.task, failure, t)
                       EXCEPT !.spawned = children,
                              !.notes = reminder.sent \o final.sent,
                              !.path = <<saved.task.status>> \o @]
        ELSE Result(logged, saved.task, IF success THEN "True" ELSE "False",
                    children, reminder.sent \o final.sent, duration,
                    <<saved.task.status>>)

\* A mutant of FinishTimeout: the status is left as the try block found it.
FinishTimeoutRunning(store, task, outcome, t) ==
    LET done == [task EXCEPT !.output = TimeoutMarker,
                             !.executed_at = IsoFormat(t + outcome.secs)]
        saved == SaveTaskToDb(store, done, t + outcome.secs)
    IN  Result(saved.store, saved.task, "False", 1, <<"Tarea Timeout">>,
               outcome.secs, <<saved.task.status>>)

\* Lines 520-531: except subprocess.TimeoutExpired.
FinishTimeout(store, task, outcome, t) ==
    LET done == [task EXCEPT !.status = "failed",
                             !.output = TimeoutMarker,
                             !.executed_at = IsoFormat(t + outcome.secs)]
        saved == SaveTaskToDb(store, done, t + outcome.secs)
        note == SendNotification("Tarea Timeout", outcome.delivery)
    IN  Result(saved.store, saved.task,
               IF note.raised THEN "Exception" ELSE "False", 1, note.sent,
               outcome.secs, <<saved.task.status>>)

\* Lines 390-539: _execute_task past the test of the enabled flag.
ExecuteEnabled(store, task, outcome, t, allowedCmds, blockedCmds) ==
    LET verdict == CheckCommandSecurity(allowedCmds, blockedCmds, task.command)
    IN  IF verdict = "IndexError"
        THEN Result(store, task, "IndexError", 0, <<>>, 0, <<>>)
        ELSE IF verdict = "False"
             THEN LET denied == [task EXCEPT !.status = "failed",
                                             !.output = SecurityDenied]
                      saved == SaveTaskToDb(store, denied, t)
                  IN  Result(saved.store, saved.task, "False", 0, <<>>, 0,
                             <<saved.task.status>>)
        ELSE LET started == SaveTaskToDb(store,
                                         [task EXCEPT !.status = "running"], t)
                 finished ==
                     CASE SpawnsChild(started.task) /\ outcome.kind = "hang" ->
                              Result(started.store, started.task, "Hang", 1,
                                     <<>>, 0, <<>>)
                       [] ~SpawnsChild(started.task) \/ outcome.kind = "exit" ->
                              FinishNormally(started.store, started.task,
                                             outcome, t)
                       [] SpawnsChild(started.task)
                              /\ outcome.kind = "timeout" ->
                              FinishTimeout(started.store, started.task,
                                            outcome, t)
                       [] OTHER ->
                              FinishError(started.store, started.task,
                                          outcome, t)
             IN  [finished EXCEPT !.path = <<started.task.status>> \o @]

\* A mutant of ExecuteTask: the enabled flag is not consulted.
ExecuteWhateverEnabled(store, task, outcome, t, allowedCmds, blockedCmds) ==
    ExecuteEnabled(store, task, outcome, t, allowedCmds, blockedCmds)

\* _execute_task(task) at clock t
ExecuteTask(store, task, outcome, t, allowedCmds, blockedCmds) ==
    IF ~task.enabled THEN Result(store, task, "False", 0, <<>>, 0, <<>>)
    ELSE ExecuteEnabled(store, task, outcome, t, allowedCmds, blockedCmds)

\* The outcomes the environment can produce for a dispatch of this task: a
\* child started with timeout=300 can exit, time out or fail to start; the
\* kdialog / notify-send child of a NOTIFICATION is started without a timeout
\* and can exit or fail to start; nothing else consults the outcome.
PossibleOutcomes(task, allowedCmds, blockedCmds) ==
    IF ~task.enabled
       \/ CheckCommandSecurity(allowedCmds, blockedCmds, task.command) # "True"
       \/ ~SpawnsChild(task)
    THEN {o \in DeliveryOutcomes : o.kind = "exit" /\ o.code = 0}
    ELSE IF task.task_type = "notification"
         THEN {o \in DeliveryOutcomes : o.kind # "timeout"} \cup {Hang}
         ELSE DeliveryOutcomes

----------------------------------------------------------------------------
(* Trigger registry: the job list of the `schedule` library's default      *)
(* scheduler, filled by _schedule_time_trigger / _schedule_interval_       *)
(* trigger.  A job is [task, period, next_run]: every(period).seconds      *)
(* sets next_run to registration time + period, and a run of the job sets  *)
(* it to completion time + period.                                         *)

UnitSeconds(unit) ==
    CASE unit = "seconds" -> 1
      [] unit = "minutes" -> 60
      [] unit = "hours" -> 3600
      [] unit = "days" -> 86400

\* The first of the keys the if/elif chain of lines 587-609 finds.
IntervalUnit(trigger_data) ==
    CASE "seconds" \in DOMAIN trigger_data -> "seconds"
      [] "minutes" \in DOMAIN trigger_data -> "minutes"
      [] "hours" \in DOMAIN trigger_data -> "hours"
      [] "days" \in DOMAIN trigger_data -> "days"
      [] OTHER -> "none"

Job(task_id, period, t) ==
    [task |-> task_id, period |-> period, next_run |-> t + period]

\* A mutant of ScheduleTimeTrigger: the job is registered whatever the time.
ScheduleTimeAlways(jobList, task, t) ==
    IF "datetime" \in DOMAIN task.trigger_data
    THEN LET scheduled_time == FromIsoFormat(task.trigger_data.datetime)
             delay == IF scheduled_time > t THEN scheduled_time - t ELSE 0
         IN  Append(jobList, Job(task.id, delay, t))
    ELSE jobList

\* _schedule_time_trigger(task) at clock t
ScheduleTimeTrigger(jobList, task, t) ==
    IF "datetime" \in DOMAIN task.trigger_data
    THEN LET scheduled_time == FromIsoFormat(task.trigger_data.datetime)
         IN  IF scheduled_time > t
             THEN Append(jobList, Job(task.id, scheduled_time - t, t))
             ELSE jobList
    ELSE jobList

\* _schedule_interval_trigger(task) at clock t
ScheduleIntervalTrigger(jobList, task, t) ==
    LET unit == IntervalUnit(task.trigger_data)
    IN  IF unit = "none" THEN jobList
        ELSE Append(jobList,
                    Job(task.id,
                        task.trigger_data[unit] * UnitSeconds(unit), t))

\* A mutant of RegisterTrigger: a trigger of any other kind is polled at the
\* loop's interval.
RegisterEveryKind(jobList, task, t) ==
    CASE task.trigger_type = "time" -> ScheduleTimeTrigger(jobList, task, t)
      [] task.trigger_type = "interval" ->
             ScheduleIntervalTrigger(jobList, task, t)
      [] OTHER -> Append(jobList, Job(task.id, CheckInterval, t))

\* Lines 623-636 of schedule_task: the trigger is registered by its kind;
\* the FILE_CHANGE and SYSTEM_EVENT branches are `pass`.
RegisterTrigger(jobList, task, t) ==
    CASE task.trigger_type = "time" -> ScheduleTimeTrigger(jobList, task, t)
      [] task.trigger_type = "interval" ->
             ScheduleIntervalTrigger(jobList, task, t)
      [] OTHER -> jobList

\* A mutant of Rearm: the next run is one period after the time the job was
\* due, not after the end of the run.
RearmFromDueTime(job, t) == [job EXCEPT !.next_run = job.next_run + job.period]

\* Job.run() after job_func returned at clock t: the next run is one period
\* after the end of this one.
Rearm(job, t) == [job EXCEPT !.next_run = t + job.period]

\* Job.should_run
ShouldRun(job, t) == t >= job.next_run

\* sorted(runnable_jobs): Job.__lt__ compares next_run and the sort is
\* stable, so jobs equally due keep their order in the job list.  The result
\* is the sequence of positions in the job list.
RECURSIVE InsertByNextRun(_, _, _)
InsertByNextRun(jobList, sorted, j) ==
    IF sorted = <<>> THEN <<j>>
    ELSE IF jobList[j].next_run < jobList[Head(sorted)].next_run
         THEN <<j>> \o sorted
         ELSE <<Head(sorted)>> \o InsertByNextRun(jobList, Tail(sorted), j)

RECURSIVE SortJobs(_, _)
SortJobs(jobList, positions) ==
    IF positions = <<>> THEN <<>>
    ELSE InsertByNextRun(jobList,
                         SortJobs(jobList,
                                  SubSeq(positions, 1, Len(positions) - 1)),
                         positions[Len(positions)])

RECURSIVE Runnable(_, _, _)
Runnable(jobList, t, from) ==
    IF from > Len(jobList) THEN <<>>
    ELSE (IF ShouldRun(jobList[from], t) THEN <<from>> ELSE <<>>)
         \o Runnable(jobList, t, from + 1)

\* A mutant of RunPendingOrder: the due jobs in job-list order, unsorted.
RunPendingUnsorted(jobList, t) == Runnable(jobList, t, 1)

\* The order in which schedule.run_pending() runs the jobs at clock t.
RunPendingOrder(jobList, t) == SortJobs(jobList, Runnable(jobList, t, 1))

----------------------------------------------------------------------------
(* State.                                                                  *)

VARIABLES
    allowed,     \* config["security"]["allowed_commands"]
    blocked,     \* config["security"]["blocked_commands"]
    now,         \* the clock, in seconds
    db,          \* the SQLite store: [rows, seq, logs]
    tasks,       \* the Task objects handed to schedule_task, by id
    jobs,        \* the job list of the default scheduler
    running,     \* self.running
    pc,          \* the loop thread: "none", "idle" (about to call
                 \* run_pending), "run" (inside run_pending, then sleeping)
    queue,       \* run_pending: positions of the due jobs still to run
    ticks,       \* history: calls of run_pending so far
    reg,         \* history: per task, the Task handed to schedule_task and
                 \* the clock and tick count at that moment
    dispatched,  \* history: per task, calls of _execute_task for it
    spawned,     \* history: per task, child processes started for it
    notes,       \* history: notifications sent, as <<task id, title>>
    tickStart,   \* history: the clock when run_pending was last called
    tickOrder,   \* history: the jobs run by the current tick, in order
    lastRun,     \* history: the latest dispatch (see RunJob)
    cmd,         \* security gate applied on its own: the command checked
    verdict,     \* ... and the result of _check_command_security
    resaved,     \* history: ids of the tasks loaded and saved again
    swept,       \* history: the latest cleanup_old_tasks (see Cleanup)
    joined,      \* stop_scheduler: "none" before it has returned, then
                 \* what join(timeout=5) met: "no thread", "exited" (the
                 \* loop thread ended) or "timeout" (it is still alive)
    threads,     \* the loop threads started by run_scheduler and the
                 \* direct runs of _execute_task, in order of their start:
                 \* [kind, pc, queue, job, task, wake]; kind "other" is
                 \* the loop thread of a second TaskScheduler object
    rejected,    \* history: the latest schedule_task call that returned
                 \* False, as [id, at]: the id of its Task object after the
                 \* call and the time of the call; or NoReject
    loaded,      \* history: the latest _load_task_from_db call, as
                 \* [id, task], or NoLoad
    assigned     \* history: the ids returned by the saves of schedule_task
                 \* that inserted a row, in the order of the calls

vars == <<allowed, blocked, now, db, tasks, jobs, running, pc, queue, ticks,
          reg, dispatched, spawned, notes, tickStart, tickOrder, lastRun, cmd,
          verdict, resaved, swept, joined, threads, rejected, loaded,
          assigned>>

configVars == <<allowed, blocked>>
gateVars == <<cmd, verdict>>
loopVars == <<running, pc, queue, ticks, tickStart, tickOrder>>
sweepVars == <<resaved, swept>>
loadVars == <<loaded>>
rejectVars == <<rejected, assigned>>
threadVars == <<threads>>

NoRun == [task |-> None]
NoSweep == [at |-> -1]
NoLoad == [id |-> None]
NoReject == [id |-> None, at |-> -1]

----------------------------------------------------------------------------
(* Inputs: the tasks a caller hands to schedule_task.                      *)

\* Seconds from the registration to the datetime of a TIME trigger: exactly
\* now (already reached when _schedule_time_trigger reads the clock), and
\* still to come.
TimeOffsets == {0, 50}

\* The values N of {"seconds": N} of an INTERVAL trigger.
IntervalSeconds == {40, 70}

TimeTrigger(t, off) == <<"time", [datetime |-> IsoFormat(t + off)]>>
IntervalTrigger(n) == <<"interval", [seconds |-> n]>>
FileChangeTrigger == <<"file_change", [path |-> "/tmp"]>>
SystemEventTrigger == <<"system_event", [event |-> "login"]>>

TasksOf(actionChoices, triggerChoices, t) ==
    {NewTask(a, g, TRUE, t) : a \in actionChoices, g \in triggerChoices}

\* Scheduler runs that vary the trigger: an allowed command under every
\* trigger, the child exiting with 0 or running into the timeout.
TriggerTasks(t) ==
    TasksOf({<<"command", Echo, <<>>>>},
            {TimeTrigger(t, off) : off \in TimeOffsets}
                \cup {IntervalTrigger(n) : n \in IntervalSeconds}, t)
TriggerOutcomes == {o \in Outcomes : o.kind = "timeout" \/ o.code = 0}

\* Scheduler runs that vary the execution: allowed and blocked commands and
\* a script under one recurring trigger, with every outcome.
ExecutorTasks(t) ==
    TasksOf({<<"command", Echo, <<>>>>, <<"command", Mkfs, <<>>>>,
             <<"script", Echo, <<>>>>},
            {IntervalTrigger(40)}, t)

----------------------------------------------------------------------------
(* Operations.                                                             *)

Init ==
    /\ allowed = DefaultAllowed
    /\ blocked = DefaultBlocked
    /\ now = 0
    /\ db = EmptyStore
    /\ tasks = <<>>
    /\ jobs = <<>>
    /\ running = FALSE
    /\ pc = "none"
    /\ queue = <<>>
    /\ ticks = 0
    /\ reg = <<>>
    /\ dispatched = <<>>
    /\ spawned = <<>>
    /\ notes = <<>>
    /\ tickStart = 0
    /\ tickOrder = <<>>
    /\ lastRun = NoRun
    /\ cmd = <<>>
    /\ verdict = "none"
    /\ resaved = {}
    /\ swept = NoSweep
    /\ joined = "none"
    /\ threads = <<>>
    /\ rejected = NoReject
    /\ assigned = <<>>
    /\ loaded = NoLoad

\* schedule_task(task): save, then register the trigger by its kind; when
\* the save fails, False is returned and the caller drops the task.
ScheduleTask(task) ==
    /\ Cardinality(DOMAIN tasks) < MaxTasks
    /\ now <= MaxRegTime
    /\ LET saved == SaveTaskToDb(db, task, now)
           task_id == saved.ret
           kept == [saved.task EXCEPT !.id = task_id]
       IN  IF task_id = -1
           THEN /\ rejected' = [id |-> saved.task.id, at |-> now]
                /\ UNCHANGED <<db, tasks, jobs, reg, dispatched, spawned,
                               assigned>>
           ELSE /\ db' = saved.store
                /\ tasks' = (task_id :> kept) @@ tasks
                /\ jobs' = RegisterTrigger(jobs, kept, now)
                /\ reg' = (task_id :> [given |-> task, at |-> now,
                                       tick |-> ticks]) @@ reg
                /\ dispatched' = (task_id :> 0) @@ dispatched
                /\ spawned' = (task_id :> 0) @@ spawned
                /\ assigned' = Append(assigned, task_id)
                /\ UNCHANGED rejected
    /\ UNCHANGED <<configVars, loadVars, threadVars, gateVars, loopVars,
                   sweepVars, joined, now, notes, lastRun>>

\* run_scheduler(): set the flag and start the loop thread.
RunScheduler ==
    /\ pc = "none"
    /\ running' = TRUE
    /\ pc' = "idle"
    /\ UNCHANGED <<configVars, rejectVars, loadVars, threadVars, gateVars,
                   sweepVars, joined, now, db, tasks, jobs, queue, ticks, reg,
                   dispatched, spawned, notes, tickStart, tickOrder, lastRun>>

\* scheduler_loop: `while self.running:` then schedule.run_pending() picks
\* and sorts the due jobs.
Tick ==
    /\ pc = "idle"
    /\ running
    /\ now <= MaxTime
    /\ queue' = RunPendingOrder(jobs, now)
    /\ pc' = "run"
    /\ ticks' = ticks + 1
    /\ tickStart' = now
    /\ tickOrder' = <<>>
    /\ UNCHANGED <<configVars, rejectVars, loadVars, threadVars, gateVars,
                   sweepVars, joined, now, db, tasks, jobs, running, reg,
                   dispatched, spawned, notes, lastRun>>

\* A mutant of LoopAfterJob: no except clause, an exception ends the thread.
LoopUncaught(ret) ==
    CASE ret = "IndexError" -> "exited"
      [] ret = "Hang" -> "hung"
      [] OTHER -> "run"

\* scheduler_loop, `try: schedule.run_pending() except Exception`: where the
\* loop thread is after a job returned (ret "True"/"False") or raised: still
\* in its iteration, on the way to time.sleep; or inside a job function that
\* never returns.
LoopAfterJob(ret) == IF ret = "Hang" THEN "hung" ELSE "run"

RECURSIVE SumOver(_, _)
SumOver(f, ids) ==
    IF ids = {} THEN 0
    ELSE LET id == CHOOSE x \in ids : TRUE
         IN  f[id] + SumOver(f, ids \ {id})

TotalRuns == SumOver(dispatched, DOMAIN dispatched)

\* run_pending runs the next due job: job.run() calls _execute_task(task)
\* and, when that returns, re-arms the job from the clock.  An exception
\* leaves run_pending at once (caught and logged by scheduler_loop): the job
\* is not re-armed and the jobs behind it are not run in this tick.
RunJob(outcome) ==
    /\ pc = "run"
    /\ queue # <<>>
    /\ TotalRuns < MaxRuns
    /\ LET pos == Head(queue)
           job == jobs[pos]
           task == tasks[job.task]
           res == ExecuteTask(db, task, outcome, now, allowed, blocked)
       IN  /\ outcome \in PossibleOutcomes(task, allowed, blocked)
           /\ dispatched' = [dispatched EXCEPT ![job.task] = @ + 1]
           /\ tickOrder' = Append(tickOrder, [task |-> job.task, pos |-> pos,
                                              due |-> job.next_run])
           /\ lastRun' = [task |-> job.task, before |-> task, at |-> now,
                          outcome |-> outcome, ret |-> res.ret,
                          spawned |-> res.spawned, elapsed |-> res.elapsed,
                          logsBefore |-> Len(db.logs), path |-> res.path,
                          tick |-> ticks, notes |-> res.notes]
           /\ IF res.ret = "IndexError"
              THEN /\ queue' = <<>>
                   /\ UNCHANGED <<now, db, tasks, jobs, spawned, notes>>
              ELSE IF res.ret = "Hang"
              THEN /\ db' = res.store
                   /\ tasks' = [tasks EXCEPT ![job.task] = res.task]
                   /\ spawned' = [spawned EXCEPT ![job.task] = @ + res.spawned]
                   /\ UNCHANGED <<now, jobs, queue, notes>>
              ELSE /\ queue' = Tail(queue)
                   /\ now' = now + res.elapsed
                   /\ db' = res.store
                   /\ tasks' = [tasks EXCEPT ![job.task] = res.task]
                   /\ jobs' = [jobs EXCEPT
                                 ![pos] = Rearm(job, now + res.elapsed)]
                   /\ spawned' = [spawned EXCEPT ![job.task] = @ + res.spawned]
                   /\ notes' = notes \o [i \in 1..Len(res.notes) |->
                                            <<job.task, res.notes[i]>>]
           /\ pc' = LoopAfterJob(res.ret)
    /\ UNCHANGED <<configVars, rejectVars, loadVars, threadVars, gateVars,
                   sweepVars, joined, running, ticks, tickStart, reg>>

\* time.sleep(check_interval_seconds) after run_pending returned or raised.
Sleep ==
    /\ pc = "run"
    /\ queue = <<>>
    /\ now' = now + CheckInterval
    /\ pc' = "idle"
    /\ UNCHANGED <<configVars, rejectVars, loadVars, threadVars, gateVars,
                   sweepVars, joined, db, tasks, jobs, running, queue, ticks,
                   reg, dispatched, spawned, notes, tickStart, tickOrder,
                   lastRun>>

Next ==
    \/ \E task \in TriggerTasks(now) : ScheduleTask(task)
    \/ RunScheduler
    \/ Tick
    \/ \E outcome \in TriggerOutcomes : RunJob(outcome)
    \/ Sleep

Spec == Init /\ [][Next]_vars

NextExec ==
    \/ \E task \in ExecutorTasks(now) : ScheduleTask(task)
    \/ RunScheduler
    \/ Tick
    \/ \E outcome \in Outcomes : RunJob(outcome)
    \/ Sleep

SpecExec == Init /\ [][NextExec]_vars

----------------------------------------------------------------------------
(* The loop with a stop request: tasks that fail in every way, a disabled  *)
(* task, and stop_scheduler called at any moment.                          *)

\* A command made of one blank: _check_command_security raises on it.
BlankCommand == <<" ">>

LoopTasks(t) ==
    TasksOf({<<"command", Echo, <<>>>>, <<"command", Mkfs, <<>>>>,
             <<"command", BlankCommand, <<>>>>}, {IntervalTrigger(40)}, t)
        \cup {NewTask(<<"command", Echo, <<>>>>, IntervalTrigger(40), FALSE, t)}

\* stop_scheduler(): clear the flag, then join the loop thread for at most
\* JoinTimeout seconds.  A thread about to test the flag ends at once; one
\* inside run_pending has the rest of its jobs and a whole sleep before it;
\* one that is sleeping ends in time only when the stop comes late in the
\* sleep, with no more than JoinTimeout seconds of it left.
StopScheduler(late) ==
    /\ joined = "none"
    /\ running' = FALSE
    /\ CASE pc = "none" ->
               joined' = "no thread" /\ UNCHANGED <<pc, now>>
         [] pc = "idle" ->
               joined' = "exited" /\ pc' = "exited" /\ UNCHANGED now
         [] pc = "run" /\ queue = <<>> /\ late ->
               /\ joined' = "exited"
               /\ pc' = "exited"
               /\ now' = now + CheckInterval
         [] OTHER ->
               /\ joined' = IF CheckInterval > JoinTimeout THEN "timeout"
                            ELSE "exited"
               /\ UNCHANGED <<pc, now>>
    /\ UNCHANGED <<configVars, rejectVars, loadVars, threadVars, gateVars,
                   sweepVars, db, tasks, jobs, queue, ticks, reg, dispatched,
                   spawned, notes, tickStart, tickOrder, lastRun>>

\* scheduler_loop: `while self.running:` finds the flag cleared and the
\* thread ends.
LoopExit ==
    /\ pc = "idle"
    /\ ~running
    /\ pc' = "exited"
    /\ UNCHANGED <<configVars, rejectVars, loadVars, threadVars, gateVars,
                   sweepVars, joined, now, db, tasks, jobs, running, queue,
                   ticks, reg, dispatched, spawned, notes, tickStart,
                   tickOrder, lastRun>>

NextLoop ==
    \/ \E task \in LoopTasks(now) : ScheduleTask(task)
    \/ RunScheduler
    \/ Tick
    \/ \E outcome \in Outcomes : RunJob(outcome)
    \/ Sleep
    \/ \E late \in BOOLEAN : StopScheduler(late)
    \/ LoopExit

SpecLoop == Init /\ [][NextLoop]_vars

----------------------------------------------------------------------------
(* The loop over tasks of the kinds that notify: REMINDER and NOTIFICATION *)
(* tasks whose command field is a message or a notifier, and COMMAND tasks *)
(* with and without the notify flag.                                       *)

\* A reminder's message: free text, no command of the allow-list.
Milk == <<"m", "i", "l", "k">>

KindTasks(t) ==
    TasksOf({<<"reminder", Milk, <<>>>>, <<"reminder", Echo, <<>>>>,
             <<"notification", Kdialog, <<>>>>, <<"command", Echo, <<>>>>,
             <<"command", Mkfs, <<>>>>, <<"command", <<"s", "h">>, <<Mkfs>>>>},
            {IntervalTrigger(40)}, t)
        \cup {[NewTask(<<"command", Echo, <<>>>>, IntervalTrigger(40), TRUE, t)
                  EXCEPT !.notify_on_completion = FALSE]}

KindOutcomes == DeliveryOutcomes \cup {Hang}

NextKinds ==
    \/ /\ Cardinality(DOMAIN tasks) < MaxStoreTasks
       /\ \E task \in KindTasks(now) : ScheduleTask(task)
    \/ RunScheduler
    \/ Tick
    \/ /\ TotalRuns < MaxStoreRuns
       /\ \E outcome \in KindOutcomes : RunJob(outcome)
    \/ Sleep

SpecKinds == Init /\ [][NextKinds]_vars

----------------------------------------------------------------------------
(* Loading from a store whose row was written by something else than       *)
(* _save_task_to_db: the JSON columns hold any text, the enum columns any  *)
(* word.                                                                   *)

\* Texts of the arguments column: documents of every JSON type, a text that
\* is no document, the empty text; and NULL.
ArgumentsTexts ==
    {Some(JsonDumps("list", <<>>)), Some(JsonDumps("list", <<"a">>)),
     Some(JsonDumps("dict", [a |-> 1])), Some(JsonDumps("str", "x")),
     Some(JsonDumps("invalid", "[")), Some(JsonDumps("empty", "")), Null}

TriggerDataTexts ==
    {Some(JsonDumps("dict", [seconds |-> 40])),
     Some(JsonDumps("list", <<40>>)), Some(JsonDumps("int", 40)),
     Some(JsonDumps("invalid", "{")), Null}

StoredRows ==
    LET written == InsertRow(NewTask(<<"command", Echo, <<>>>>,
                                     IntervalTrigger(40), TRUE, 0), 0)
    IN  {[written EXCEPT !.arguments = a, !.trigger_data = g,
                         !.task_type = Some(k)] :
             a \in ArgumentsTexts, g \in TriggerDataTexts,
             k \in {"command", "job"}}

InitLoad ==
    /\ allowed = DefaultAllowed
    /\ blocked = DefaultBlocked
    /\ now = 0
    /\ \E row \in StoredRows :
           db = [EmptyStore EXCEPT !.rows = 1 :> row, !.seq = 1]
    /\ tasks = <<>>
    /\ jobs = <<>>
    /\ running = FALSE
    /\ pc = "none"
    /\ queue = <<>>
    /\ ticks = 0
    /\ reg = <<>>
    /\ dispatched = <<>>
    /\ spawned = <<>>
    /\ notes = <<>>
    /\ tickStart = 0
    /\ tickOrder = <<>>
    /\ lastRun = NoRun
    /\ cmd = <<>>
    /\ verdict = "none"
    /\ resaved = {}
    /\ swept = NoSweep
    /\ joined = "none"
    /\ threads = <<>>
    /\ rejected = NoReject
    /\ assigned = <<>>
    /\ loaded = NoLoad

\* task = self._load_task_from_db(task_id)
LoadTask(task_id) ==
    /\ loaded' = [id |-> task_id, task |-> LoadTaskFromDb(db, task_id)]
    /\ UNCHANGED <<configVars, rejectVars, threadVars, gateVars, loopVars,
                   sweepVars, joined, now, db, tasks, jobs, reg, dispatched,
                   spawned, notes, lastRun>>

NextLoad == \E task_id \in 1..2 : LoadTask(task_id)

SpecLoad == InitLoad /\ [][NextLoad]_vars

----------------------------------------------------------------------------
(* Threads.  run_scheduler starts a new loop thread at every call; every   *)
(* loop thread of the process calls run_pending of the one default         *)
(* scheduler of the `schedule` module, whose job list they share.  A job   *)
(* is re-armed when its function has returned.  _execute_task is also      *)
(* called directly: by create_task_interactive in the calling thread and   *)
(* by `--run ID` in a process of its own.  An execution that got past the  *)
(* security check is in progress from the save of RUNNING until the child  *)
(* has returned.                                                           *)

ThreadTasks(t) ==
    TasksOf({<<"command", Echo, <<>>>>, <<"command", Mkfs, <<>>>>},
            {IntervalTrigger(40)}, t)

ThreadOutcomes == {o \in Outcomes : o.kind = "exit" /\ o.code = 0}

LoopThread ==
    [kind |-> "loop", pc |-> "idle", queue |-> <<>>, job |-> 0,
     task |-> None, wake |-> 0]

DirectRun(id) ==
    [kind |-> "direct", pc |-> "exec", queue |-> <<>>, job |-> 0,
     task |-> id, wake |-> 0]

\* Does _execute_task(task) get to its try block?
Admitted(task) ==
    /\ task.enabled
    /\ CheckCommandSecurity(allowed, blocked, task.command) = "True"

\* Lines 401-402: task.status = RUNNING; self._save_task_to_db(task)
SaveRunning(id) ==
    LET started == SaveTaskToDb(db, [tasks[id] EXCEPT !.status = "running"],
                                now)
    IN  /\ db' = started.store
        /\ tasks' = [tasks EXCEPT ![id] = started.task]

\* run_scheduler(): the flag is set and one more loop thread is started.
StartThread ==
    /\ Len(threads) < MaxThreads
    /\ running' = TRUE
    /\ threads' = Append(threads, LoopThread)
    /\ UNCHANGED <<configVars, rejectVars, loadVars, gateVars, sweepVars,
                   joined, now, db, tasks, jobs, pc, queue, ticks, tickStart,
                   tickOrder, reg, dispatched, spawned, notes, lastRun>>

\* stop_scheduler(): the flag is cleared; the join gives up after
\* JoinTimeout seconds, whatever the threads are doing.
StopThreads ==
    /\ running
    /\ running' = FALSE
    /\ UNCHANGED <<configVars, rejectVars, loadVars, threadVars, gateVars,
                   sweepVars, joined, now, db, tasks, jobs, pc, queue, ticks,
                   tickStart, tickOrder, reg, dispatched, spawned, notes,
                   lastRun>>

\* `while self.running:` of one loop thread: run_pending picks the due jobs,
\* or the thread ends.
ThreadTick(th) ==
    /\ threads[th].kind = "loop"
    /\ threads[th].pc = "idle"
    /\ threads' = [threads EXCEPT
                      ![th].pc = IF running THEN "run" ELSE "exited",
                      ![th].queue = IF running THEN RunPendingOrder(jobs, now)
                                    ELSE <<>>]
    /\ UNCHANGED <<configVars, rejectVars, loadVars, gateVars, sweepVars,
                   joined, now, db, tasks, jobs, running, pc, queue, ticks,
                   tickStart, tickOrder, reg, dispatched, spawned, notes,
                   lastRun>>

\* run_pending of one loop thread calls the next job: _execute_task returns
\* at once for a disabled or refused task, and otherwise saves RUNNING and
\* starts the child.
ThreadBegin(th) ==
    /\ threads[th].kind # "direct"
    /\ threads[th].pc = "run"
    /\ threads[th].queue # <<>>
    /\ LET pos == Head(threads[th].queue)
           id == jobs[pos].task
           res == ExecuteTask(db, tasks[id], CHOOSE o \in ThreadOutcomes : TRUE,
                              now, allowed, blocked)
       IN  /\ dispatched' = [dispatched EXCEPT ![id] = @ + 1]
           /\ IF Admitted(tasks[id])
              THEN /\ SaveRunning(id)
                   /\ threads' = [threads EXCEPT ![th].pc = "exec",
                                                 ![th].job = pos,
                                                 ![th].task = id]
                   /\ UNCHANGED jobs
              ELSE /\ db' = res.store
                   /\ tasks' = [tasks EXCEPT ![id] = res.task]
                   /\ jobs' = [jobs EXCEPT ![pos] = Rearm(jobs[pos], now)]
                   /\ threads' = [threads EXCEPT ![th].queue = Tail(@)]
    /\ UNCHANGED <<configVars, rejectVars, loadVars, gateVars, sweepVars,
                   joined, now, running, pc, queue, ticks, tickStart,
                   tickOrder, reg, spawned, notes, lastRun>>

\* The child of an execution returns: the task is finished and saved; in a
\* loop thread the job is re-armed and run_pending goes on.
ThreadEnd(th, outcome) ==
    /\ threads[th].pc = "exec"
    /\ LET id == threads[th].task
           pos == threads[th].job
           res == ExecuteTask(db, tasks[id], outcome, now, allowed, blocked)
       IN  /\ db' = res.store
           /\ tasks' = [tasks EXCEPT ![id] = res.task]
           /\ spawned' = [spawned EXCEPT ![id] = @ + res.spawned]
           /\ IF threads[th].kind # "direct"
              THEN /\ jobs' = [jobs EXCEPT ![pos] = Rearm(jobs[pos], now)]
                   /\ threads' = [threads EXCEPT ![th].pc = "run",
                                                 ![th].queue = Tail(@),
                                                 ![th].job = 0,
                                                 ![th].task = None]
              ELSE /\ threads' = [threads EXCEPT ![th].pc = "exited",
                                                 ![th].task = None]
                   /\ UNCHANGED jobs
    /\ UNCHANGED <<configVars, rejectVars, loadVars, gateVars, sweepVars,
                   joined, now, running, pc, queue, ticks, tickStart,
                   tickOrder, reg, dispatched, notes, lastRun>>

\* time.sleep(check_interval_seconds) of one loop thread begins.
ThreadSleep(th) ==
    /\ threads[th].kind # "direct"
    /\ threads[th].pc = "run"
    /\ threads[th].queue = <<>>
    /\ threads' = [threads EXCEPT ![th].pc = "sleep",
                                  ![th].wake = now + CheckInterval]
    /\ UNCHANGED <<configVars, rejectVars, loadVars, gateVars, sweepVars,
                   joined, now, db, tasks, jobs, running, pc, queue, ticks,
                   tickStart, tickOrder, reg, dispatched, spawned, notes,
                   lastRun>>

\* ... and ends.
ThreadWake(th) ==
    /\ threads[th].pc = "sleep"
    /\ now >= threads[th].wake
    /\ threads' = [threads EXCEPT ![th].pc = "idle"]
    /\ UNCHANGED <<configVars, rejectVars, loadVars, gateVars, sweepVars,
                   joined, now, db, tasks, jobs, running, pc, queue, ticks,
                   tickStart, tickOrder, reg, dispatched, spawned, notes,
                   lastRun>>

\* _execute_task(task) called directly, outside the loop.
DirectBegin(id) ==
    /\ Len(threads) < MaxThreads
    /\ Admitted(tasks[id])
    /\ SaveRunning(id)
    /\ dispatched' = [dispatched EXCEPT ![id] = @ + 1]
    /\ threads' = Append(threads, DirectRun(id))
    /\ UNCHANGED <<configVars, rejectVars, loadVars, gateVars, sweepVars,
                   joined, now, jobs, running, pc, queue, ticks, tickStart,
                   tickOrder, reg, spawned, notes, lastRun>>

\* The clock advances.
Pass ==
    /\ now < MaxThreadTime
    /\ now' = now + CheckInterval
    /\ UNCHANGED <<configVars, rejectVars, loadVars, threadVars, gateVars,
                   sweepVars, joined, db, tasks, jobs, running, pc, queue,
                   ticks, tickStart, tickOrder, reg, dispatched, spawned,
                   notes, lastRun>>

NextThreads ==
    \/ /\ Cardinality(DOMAIN tasks) < MaxStoreTasks
       /\ \E task \in ThreadTasks(now) : ScheduleTask(task)
    \/ StartThread
    \/ StopThreads
    \/ \E th \in DOMAIN threads : ThreadTick(th)
    \/ \E th \in DOMAIN threads : ThreadBegin(th)
    \/ \E th \in DOMAIN threads : \E outcome \in ThreadOutcomes :
           ThreadEnd(th, outcome)
    \/ \E th \in DOMAIN threads : ThreadSleep(th)
    \/ \E th \in DOMAIN threads : ThreadWake(th)
    \/ \E id \in DOMAIN tasks : DirectBegin(id)
    \/ Pass

SpecThreads == Init /\ [][NextThreads]_vars

----------------------------------------------------------------------------
(* Two TaskScheduler objects in one process.  The tasks are scheduled      *)
(* through the first, whose flag is `running`; the second is only started. *)
(* _schedule_time_trigger and _schedule_interval_trigger call              *)
(* schedule.every(...), and the loop calls schedule.run_pending(): both    *)
(* are functions of the `schedule` module and work on its default          *)
(* scheduler.  self.scheduler = schedule.Scheduler() is assigned in        *)
(* __init__ and used nowhere.                                              *)

InstanceTasks(t) ==
    TasksOf({<<"command", Echo, <<>>>>}, {IntervalTrigger(40)}, t)

OtherLoopThread == [LoopThread EXCEPT !.kind = "other"]

ThreadsOfKind(kind) == {th \in DOMAIN threads : threads[th].kind = kind}

\* run_scheduler() of the second object.
StartOther ==
    /\ ThreadsOfKind("other") = {}
    /\ threads' = Append(threads, OtherLoopThread)
    /\ UNCHANGED <<configVars, rejectVars, loadVars, gateVars, sweepVars,
                   joined, now, db, tasks, jobs, running, pc, queue, ticks,
                   tickStart, tickOrder, reg, dispatched, spawned, notes,
                   lastRun>>

\* `while self.running:` of the second object's loop thread, whose flag
\* stays set: schedule.run_pending() picks the due jobs.
OtherTick(th) ==
    /\ threads[th].kind = "other"
    /\ threads[th].pc = "idle"
    /\ threads' = [threads EXCEPT ![th].pc = "run",
                                  ![th].queue = RunPendingOrder(jobs, now)]
    /\ UNCHANGED <<configVars, rejectVars, loadVars, gateVars, sweepVars,
                   joined, now, db, tasks, jobs, running, pc, queue, ticks,
                   tickStart, tickOrder, reg, dispatched, spawned, notes,
                   lastRun>>

NextInstances ==
    \/ /\ Cardinality(DOMAIN tasks) < MaxStoreTasks
       /\ \E task \in InstanceTasks(now) : ScheduleTask(task)
    \/ ThreadsOfKind("loop") = {} /\ StartThread
    \/ StopThreads
    \/ StartOther
    \/ \E th \in DOMAIN threads : ThreadTick(th)
    \/ \E th \in DOMAIN threads : OtherTick(th)
    \/ \E th \in DOMAIN threads : ThreadBegin(th)
    \/ \E th \in DOMAIN threads : \E outcome \in ThreadOutcomes :
           ThreadEnd(th, outcome)
    \/ \E th \in DOMAIN threads : ThreadSleep(th)
    \/ \E th \in DOMAIN threads : ThreadWake(th)
    \/ Pass

SpecInstances == Init /\ [][NextInstances]_vars

----------------------------------------------------------------------------
(* The daemon.  `--daemon` runs in a process of its own: main() builds a   *)
(* TaskScheduler, whose __init__ opens the store, and calls                *)
(* run_scheduler(); the job list of the new process is empty and nothing   *)
(* reads the stored tasks into it.                                         *)

DaemonTasks(t) ==
    TasksOf({<<"command", Echo, <<>>>>, <<"command", Mkfs, <<>>>>},
            {IntervalTrigger(40)}, t)

DaemonOutcomes == {o \in Outcomes : o.kind = "exit"}

\* main() with --daemon, lines 885-899, after the process that scheduled
\* the tasks has ended: the Task objects and jobs of that process are gone,
\* the store is what it was.
StartDaemon ==
    /\ pc = "none"
    /\ jobs' = <<>>
    /\ running' = TRUE
    /\ pc' = "idle"
    /\ UNCHANGED <<configVars, rejectVars, loadVars, threadVars, gateVars,
                   sweepVars, joined, now, db, tasks, queue, ticks, reg,
                   dispatched, spawned, notes, tickStart, tickOrder, lastRun>>

NextDaemon ==
    \/ \E task \in DaemonTasks(now) : ScheduleTask(task)
    \/ RunScheduler
    \/ StartDaemon
    \/ Tick
    \/ \E outcome \in DaemonOutcomes : RunJob(outcome)
    \/ Sleep

SpecDaemon == Init /\ [][NextDaemon]_vars

----------------------------------------------------------------------------
(* The loop over a store whose task_dependencies table holds edges.  No    *)
(* statement of the program writes or reads that table; its rows come from *)
(* outside.                                                                *)

\* (task_id, depends_on_id) rows: none, or task 2 depending on task 1.
DependencyEdges == {{}, {<<2, 1>>}}

InitDeps ==
    /\ allowed = DefaultAllowed
    /\ blocked = DefaultBlocked
    /\ now = 0
    /\ \E edges \in DependencyEdges : db = [EmptyStore EXCEPT !.deps = edges]
    /\ tasks = <<>>
    /\ jobs = <<>>
    /\ running = FALSE
    /\ pc = "none"
    /\ queue = <<>>
    /\ ticks = 0
    /\ reg = <<>>
    /\ dispatched = <<>>
    /\ spawned = <<>>
    /\ notes = <<>>
    /\ tickStart = 0
    /\ tickOrder = <<>>
    /\ lastRun = NoRun
    /\ cmd = <<>>
    /\ verdict = "none"
    /\ resaved = {}
    /\ swept = NoSweep
    /\ joined = "none"
    /\ threads = <<>>
    /\ rejected = NoReject
    /\ assigned = <<>>
    /\ loaded = NoLoad

DepsTasks(t) ==
    TasksOf({<<"command", Echo, <<>>>>, <<"command", Mkfs, <<>>>>},
            {IntervalTrigger(40)}, t)

NextDeps ==
    \/ \E task \in DepsTasks(now) : ScheduleTask(task)
    \/ RunScheduler
    \/ Tick
    \/ \E outcome \in Outcomes : RunJob(outcome)
    \/ Sleep

SpecDeps == InitDeps /\ [][NextDeps]_vars

----------------------------------------------------------------------------
(* The loop over tasks with the declared trigger kinds that schedule_task  *)
(* does not register, next to a recurring task.                            *)

EventTasks(t) ==
    TasksOf({<<"command", Echo, <<>>>>},
            {IntervalTrigger(40), FileChangeTrigger, SystemEventTrigger}, t)

EventOutcomes == {o \in Outcomes : o.kind = "exit"}

NextEvents ==
    \/ \E task \in EventTasks(now) : ScheduleTask(task)
    \/ RunScheduler
    \/ Tick
    \/ \E outcome \in EventOutcomes : RunJob(outcome)
    \/ Sleep

SpecEvents == Init /\ [][NextEvents]_vars

----------------------------------------------------------------------------
(* The store under command-line use: tasks are created, run by id          *)
(* (--run: load, then _execute_task), swept (--cleanup) by processes days   *)
(* apart, and the database file may refuse a writer.                       *)

\* Tasks that differ in the fields the store treats specially.
StoreTasks(t) ==
    LET plain == NewTask(<<"command", Echo, <<>>>>, IntervalTrigger(40),
                         TRUE, t)
    IN  {plain,
         [plain EXCEPT !.max_retries = 0],
         [plain EXCEPT !.created_at = EmptyStr],
         [plain EXCEPT !.result_code = 2, !.output = "old",
                       !.executed_at = IsoFormat(t)]}

StoreOutcomes == {o \in Outcomes : o.kind = "exit" /\ o.code = 0}
SweepOutcomes == {o \in Outcomes : o.kind = "exit"}

\* The one task of the sweep model.
SweepTasks(t) ==
    {NewTask(<<"command", Echo, <<>>>>, IntervalTrigger(40), TRUE, t)}

\* Days between two uses of the program.
ElapseDays == {CleanupDays, CleanupDays + 1}

\* _save_task_to_db(_load_task_from_db(id)): the stored task is read and
\* written back unchanged.
ResaveTask(id) ==
    /\ id \in DOMAIN db.rows
    /\ id \notin resaved
    /\ LET read == LoadTaskFromDb(db, id)
           saved == SaveTaskToDb(db, read, now)
       IN  /\ db' = saved.store
           /\ tasks' = [tasks EXCEPT ![id] = saved.task]
           /\ resaved' = IF saved.ret = -1 THEN resaved ELSE resaved \cup {id}
    /\ UNCHANGED <<configVars, rejectVars, loadVars, threadVars, gateVars,
                   loopVars, swept, joined, now, jobs, reg, dispatched,
                   spawned, notes, lastRun>>

\* main(), --run ID: the task is loaded and executed.  An exception of the
\* security check ends the process with nothing done.
RunTask(id, outcome) ==
    /\ id \in DOMAIN db.rows
    /\ TotalRuns < MaxStoreRuns
    /\ LET task == LoadTaskFromDb(db, id)
           res == ExecuteTask(db, task, outcome, now, allowed, blocked)
       IN  /\ outcome \in PossibleOutcomes(task, allowed, blocked)
           /\ dispatched' = [dispatched EXCEPT ![id] = @ + 1]
           /\ lastRun' = [task |-> id, before |-> task, at |-> now,
                          outcome |-> outcome, ret |-> res.ret,
                          spawned |-> res.spawned, elapsed |-> res.elapsed,
                          logsBefore |-> Len(db.logs), path |-> res.path,
                          tick |-> ticks, notes |-> res.notes]
           /\ IF res.ret = "IndexError"
              THEN UNCHANGED <<now, db, tasks, spawned, notes>>
              ELSE /\ now' = now + res.elapsed
                   /\ db' = res.store
                   /\ tasks' = [tasks EXCEPT ![id] = res.task]
                   /\ spawned' = [spawned EXCEPT ![id] = @ + res.spawned]
                   /\ notes' = notes \o [i \in 1..Len(res.notes) |->
                                            <<id, res.notes[i]>>]
    /\ UNCHANGED <<configVars, rejectVars, loadVars, threadVars, gateVars,
                   loopVars, sweepVars, joined, jobs, reg>>

\* main(), --cleanup: cleanup_old_tasks().  swept records the clock and the
\* store the sweep found.
Cleanup ==
    /\ db' = CleanupOldTasks(db, now)
    /\ swept' = [at |-> now, before |-> db]
    /\ UNCHANGED <<configVars, rejectVars, loadVars, threadVars, gateVars,
                   loopVars, resaved, joined, now, tasks, jobs, reg,
                   dispatched, spawned, notes, lastRun>>

\* Days pass between two uses of the program.
Elapse(days) ==
    /\ now + days * DaySeconds <= MaxDays * DaySeconds
    /\ now' = now + days * DaySeconds
    /\ UNCHANGED <<configVars, rejectVars, loadVars, threadVars, gateVars,
                   loopVars, sweepVars, joined, db, tasks, jobs, reg,
                   dispatched, spawned, notes, lastRun>>

\* The database file starts or stops refusing writers.
SetFault(fault) ==
    /\ fault # db.fault
    /\ db' = [db EXCEPT !.fault = fault]
    /\ UNCHANGED <<configVars, rejectVars, loadVars, threadVars, gateVars,
                   loopVars, sweepVars, joined, now, tasks, jobs, reg,
                   dispatched, spawned, notes, lastRun>>

\* Saving, loading and running tasks while the database file comes and goes.
NextStore ==
    \/ /\ Cardinality(DOMAIN tasks) < MaxStoreTasks
       /\ \E task \in StoreTasks(now) : ScheduleTask(task)
    \/ \E id \in DOMAIN tasks : ResaveTask(id)
    \/ \E id \in DOMAIN tasks : \E outcome \in StoreOutcomes :
           RunTask(id, outcome)
    \/ \E fault \in Faults : SetFault(fault)

SpecStore == Init /\ [][NextStore]_vars

\* Running and sweeping tasks over two months.
NextSweep ==
    \/ /\ Cardinality(DOMAIN tasks) < MaxStoreTasks
       /\ \E task \in SweepTasks(now) : ScheduleTask(task)
    \/ \E id \in DOMAIN tasks : \E outcome \in SweepOutcomes :
           RunTask(id, outcome)
    \/ Cleanup
    \/ \E days \in ElapseDays : Elapse(days)

SpecSweep == Init /\ [][NextSweep]_vars

\* create_task_interactive on a later day: Task(...) is built from the
\* answers and handed to schedule_task, which saves it and registers its
\* trigger.
CreateTask(task) ==
    /\ Len(assigned) < MaxIds
    /\ LET saved == SaveTaskToDb(db, task, now)
           task_id == saved.ret
           kept == [saved.task EXCEPT !.id = task_id]
       IN  IF task_id = -1
           THEN /\ rejected' = [id |-> saved.task.id, at |-> now]
                /\ UNCHANGED <<db, tasks, jobs, reg, dispatched, spawned,
                               assigned>>
           ELSE /\ db' = saved.store
                /\ tasks' = (task_id :> kept) @@ tasks
                /\ jobs' = RegisterTrigger(jobs, kept, now)
                /\ reg' = (task_id :> [given |-> task, at |-> now,
                                       tick |-> ticks]) @@ reg
                /\ dispatched' = (task_id :> 0) @@ dispatched
                /\ spawned' = (task_id :> 0) @@ spawned
                /\ assigned' = Append(assigned, task_id)
                /\ UNCHANGED rejected
    /\ UNCHANGED <<configVars, loadVars, threadVars, gateVars, loopVars,
                   sweepVars, joined, now, notes, lastRun>>

\* Tasks created and swept over two months while the database file comes
\* and goes; one execution leaves a log entry for the sweep to remove.
NextIds ==
    \/ \E task \in SweepTasks(now) : CreateTask(task)
    \/ \E id \in DOMAIN tasks : \E outcome \in StoreOutcomes :
           TotalRuns = 0 /\ RunTask(id, outcome)
    \/ Cleanup
    \/ Elapse(CleanupDays + 1)
    \/ \E fault \in {"none", "commit"} : SetFault(fault)

SpecIds == Init /\ [][NextIds]_vars

----------------------------------------------------------------------------
(* The security gate on its own: any configuration out of a few entries,   *)
(* applied to every command of up to MaxLen characters.                    *)

GateAlphabet == {"a", "b", " ", "\t"}

RECURSIVE Strings(_)
Strings(n) ==
    IF n = 0 THEN {<<>>}
    ELSE LET shorter == Strings(n - 1)
         IN  shorter \cup {Append(s, c) : s \in shorter, c \in GateAlphabet}

GateAllowedEntries == {<<"a">>, <<"a", "b">>}
GateBlockedEntries == {<<"b">>, <<"a", " ">>}

InitGate ==
    /\ allowed \in SUBSET GateAllowedEntries
    /\ blocked \in SUBSET GateBlockedEntries
    /\ now = 0
    /\ db = EmptyStore
    /\ tasks = <<>>
    /\ jobs = <<>>
    /\ running = FALSE
    /\ pc = "none"
    /\ queue = <<>>
    /\ ticks = 0
    /\ reg = <<>>
    /\ dispatched = <<>>
    /\ spawned = <<>>
    /\ notes = <<>>
    /\ tickStart = 0
    /\ tickOrder = <<>>
    /\ lastRun = NoRun
    /\ cmd = <<>>
    /\ verdict = "none"
    /\ resaved = {}
    /\ swept = NoSweep
    /\ joined = "none"
    /\ threads = <<>>
    /\ rejected = NoReject
    /\ assigned = <<>>
    /\ loaded = NoLoad

\* self._check_command_security(command)
CheckCommand(command) ==
    /\ cmd' = command
    /\ verdict' = CheckCommandSecurity(allowed, blocked, command)
    /\ UNCHANGED <<configVars, rejectVars, loadVars, threadVars, sweepVars,
                   joined, now, db, tasks, jobs, running, pc, queue, ticks,
                   reg, dispatched, spawned, notes, tickStart, tickOrder,
                   lastRun>>

NextGate == \E command \in Strings(MaxLen) : CheckCommand(command)

SpecGate == InitGate /\ [][NextGate]_vars

----------------------------------------------------------------------------
(* Properties.  Auxiliary predicates first.                                *)

\* The tick counted by `ticks` is over: run_pending has returned or raised.
TickFinished == pc = "idle" \/ (pc = "run" /\ queue = <<>>)

\* A tick that began after schedule_task(id) is over.
TickSinceRegistered(id) == ticks > reg[id].tick /\ TickFinished

TimeTasks == {id \in DOMAIN tasks : tasks[id].trigger_type = "time"}
IntervalTasks == {id \in DOMAIN tasks : tasks[id].trigger_type = "interval"}

ScheduledTime(id) == FromIsoFormat(tasks[id].trigger_data.datetime)

\* TIME tasks by their timestamp at the moment schedule_task registered them.
ReachedAtRegistration(id) == id \in TimeTasks /\ ScheduledTime(id) <= reg[id].at
AheadAtRegistration(id) == id \in TimeTasks /\ ScheduledTime(id) > reg[id].at

JobsOf(id) == {j \in 1..Len(jobs) : jobs[j].task = id}

\* The latest dispatch got past the enabled flag and the security gate.
LastRunAdmitted ==
    /\ lastRun.task # None
    /\ lastRun.before.enabled
    /\ CheckCommandSecurity(allowed, blocked, lastRun.before.command) = "True"

LastRunDenied ==
    /\ lastRun.task # None
    /\ lastRun.before.enabled
    /\ CheckCommandSecurity(allowed, blocked, lastRun.before.command) = "False"

\* C1: a TIME task is dispatched at most once in a run: once it has been
\* executed, no later tick executes it again.
C1_TimeTaskFiresOnce == \A id \in TimeTasks : dispatched[id] <= 1

\* C2 (as claimed): a TIME task whose timestamp is at or before the clock when
\* schedule_task registers it is dispatched by the next tick.
C2_ReachedTimeTaskFiresOnNextTick ==
    \A id \in DOMAIN tasks :
        ReachedAtRegistration(id) /\ TickSinceRegistered(id)
            => dispatched[id] >= 1

\* C2 (amended): a TIME task whose timestamp is at or before the clock when
\* schedule_task registers it gets no trigger and is never dispatched by a
\* tick.
C2_ReachedTimeTaskSuppressed ==
    \A id \in DOMAIN tasks :
        ReachedAtRegistration(id) => JobsOf(id) = {} /\ dispatched[id] = 0

C2_Witness ==
    \E id \in DOMAIN tasks :
        /\ ReachedAtRegistration(id)
        /\ tasks[id].enabled
        /\ ticks >= reg[id].tick + 2
        /\ tickStart > reg[id].at
        /\ dispatched[id] = 0

C4_TickOrderById ==
    \A i, j \in 1..Len(tickOrder) :
        i < j => tickOrder[i].task < tickOrder[j].task

\* C4 (amended): the tasks run by one tick run in ascending order of the time
\* their triggers were due, and equally due ones in registration order.
C4_TickOrderByDueTime ==
    \A i, j \in 1..Len(tickOrder) :
        i < j =>
            \/ tickOrder[i].due < tickOrder[j].due
            \/ /\ tickOrder[i].due = tickOrder[j].due
               /\ tickOrder[i].pos < tickOrder[j].pos

C4_Witness ==
    /\ Len(tickOrder) = 2
    /\ tickOrder[1].task > tickOrder[2].task
    /\ tickOrder[1].due < tickOrder[2].due

\* C5: a command that contains a configured blocked substring is rejected
\* whatever the allow-list holds, its own first token included.
C5_BlockedWins ==
    verdict # "none" /\ (\E b \in blocked : Contains(cmd, b))
        => verdict = "False"

C5_Witness ==
    /\ verdict = "False"
    /\ \E b \in blocked : Contains(cmd, b)
    /\ SplitFirst(cmd) \in allowed
    /\ cmd \notin allowed

\* C6: for a command without blocked substring the check returns true exactly
\* when the allow-list is empty or holds the command's first
\* whitespace-delimited token.
C6_AllowListDecides ==
    verdict # "none" /\ ~(\E b \in blocked : Contains(cmd, b))
        => IF allowed # {}
           THEN verdict = "True" <=> SplitFirst(cmd) \in allowed
           ELSE verdict = "True"

\* C7: a dispatch rejected by the security check leaves the task FAILED with
\* the security-denial output, in memory and in its stored row, and starts no
\* child process.
C7_DenialMarkedAndStored ==
    LastRunDenied =>
        /\ tasks[lastRun.task].status = "failed"
        /\ tasks[lastRun.task].output = SecurityDenied
        /\ db.rows[lastRun.task].status = Some("failed")
        /\ db.rows[lastRun.task].output = Some(SecurityDenied)
        /\ lastRun.spawned = 0

LastRunLogs == SubSeq(db.logs, lastRun.logsBefore + 1, Len(db.logs))

\* C9: a COMMAND or SCRIPT execution that exceeds the 300-second limit leaves
\* the task FAILED with the timeout marker, and a duration of about 300
\* seconds is recorded for it.
C9_TimeoutFailedWithDuration ==
    /\ LastRunAdmitted
    /\ lastRun.before.task_type \in {"command", "script"}
    /\ lastRun.outcome.kind = "timeout"
    => /\ tasks[lastRun.task].status = "failed"
       /\ tasks[lastRun.task].output = TimeoutMarker
       /\ \E i \in 1..Len(LastRunLogs) :
              /\ LastRunLogs[i].task_id = lastRun.task
              /\ LastRunLogs[i].duration_seconds = Timeout

\* C10: every execution that passes the security check appends exactly one
\* execution-log entry, for its task id, whatever its outcome.
C10_OneLogPerExecution ==
    LastRunAdmitted =>
        /\ Len(LastRunLogs) = 1
        /\ LastRunLogs[1].task_id = lastRun.task

\* The latest dispatch was an execution that came to an end: the task was
\* enabled and the security check returned.
LastRunFinished == LastRunAdmitted \/ LastRunDenied

\* C11: after an execution has finished, the task loaded from the store
\* carries the outcome of that execution: status, executed-at, result code and
\* output as the execution left them, and a non-empty output when FAILED for
\* a denial, a timeout or an exception.
C11_LoadReturnsOutcome ==
    LastRunFinished =>
        LET done == tasks[lastRun.task]
            read == LoadTaskFromDb(db, lastRun.task)
        IN  /\ read.status = done.status
            /\ read.executed_at = done.executed_at
            /\ read.result_code = done.result_code
            /\ read.output = done.output
            /\ read.status = "failed" /\ (LastRunDenied
                                          \/ lastRun.outcome.kind # "exit")
               => read.output # ""

\* The status changes the data model allows.
StatusSteps ==
    {<<"pending", "running">>, <<"running", "completed">>,
     <<"running", "failed">>, <<"pending", "cancelled">>}

C14_ExecutedAtIffStarted ==
    \A id \in DOMAIN tasks :
        tasks[id].executed_at # EmptyStr
            <=> tasks[id].status \in {"running", "completed", "failed"}

\* The notifications of the last dispatch whose title is one of the given.
NotesTitled(titles) ==
    Cardinality({i \in DOMAIN lastRun.notes : lastRun.notes[i] \in titles})

\* C22: every dispatch that ends with the task FAILED sends one failure
\* notification whatever the notify flag, and a dispatch that ends COMPLETED
\* sends a completion notification exactly when the notify flag is set.
C22_NotificationPerOutcome ==
    lastRun.task # None /\ lastRun.path # <<>>
    => LET task == tasks[lastRun.task]
       IN  /\ task.status = "failed"
              => NotesTitled({"Tarea Fallida", "Tarea Timeout"}) = 1
           /\ task.status = "completed"
              => NotesTitled({"Tarea Completada"})
                     = IF task.notify_on_completion THEN 1 ELSE 0

\* C26: a load never raises: the load of an id with no row and the load of
\* a row whose arguments or trigger data are no JSON document return None,
\* and every task that a load returns has a list as its arguments and a
\* mapping as its trigger data.
C26_LoadReturnsWellFormed ==
    loaded # NoLoad
    => /\ loaded.id \notin DOMAIN db.rows => loaded.task = NoTask
       /\ loaded.id \in DOMAIN db.rows
              /\ (\/ ~JsonParses(ArgumentsCell(db.rows[loaded.id]))
                  \/ ~JsonParses(TriggerDataCell(db.rows[loaded.id])))
          => loaded.task = NoTask
       /\ loaded.task # NoTask
          => /\ LoadedTypes(db, loaded.id).arguments = "list"
             /\ LoadedTypes(db, loaded.id).trigger_data = "dict"

\* The same without its last part: the load of a missing id or of a row
\* with an unparsable JSON column returns None.
C26_LoadNeverRaises ==
    loaded # NoLoad
    => /\ loaded.id \notin DOMAIN db.rows => loaded.task = NoTask
       /\ loaded.id \in DOMAIN db.rows
              /\ (\/ ~JsonParses(ArgumentsCell(db.rows[loaded.id]))
                  \/ ~JsonParses(TriggerDataCell(db.rows[loaded.id])))
          => loaded.task = NoTask

\* C27: no child process is started by a dispatch of a task whose full
\* command line, the command with its arguments, contains a blocked text.
C27_NoChildForBlockedLine ==
    /\ lastRun.task # None
    /\ \E b \in blocked : Contains(FullCommand(lastRun.before), b)
    => lastRun.spawned = 0

\* The same of the command field alone.
C27_NoChildForBlockedCommand ==
    /\ lastRun.task # None
    /\ \E b \in blocked : Contains(lastRun.before.command, b)
    => lastRun.spawned = 0

\* The enabled tasks whose security check returns, with a recurring trigger
\* that is due again at every tick.
SteadyTasks ==
    {id \in IntervalTasks :
         /\ tasks[id].enabled
         /\ CheckCommandSecurity(allowed, blocked, tasks[id].command)
                # "IndexError"
         /\ \E j \in JobsOf(id) : jobs[j].period <= CheckInterval}

\* A dispatch has raised out of _execute_task.
SomeDispatchRaised ==
    \E id \in DOMAIN tasks :
        /\ dispatched[id] > 0
        /\ tasks[id].enabled
        /\ CheckCommandSecurity(allowed, blocked, tasks[id].command)
               = "IndexError"

\* C28: a dispatch that raises keeps no other due task from its dispatch in
\* that tick or a later one: a task that is due at every tick has been
\* dispatched once the third tick since its registration is over.
C28_OthersStillDispatched ==
    \A id \in SteadyTasks :
        ticks >= reg[id].tick + 3 /\ TickFinished => dispatched[id] > 0

\* The same while no dispatch has raised.
C28_DispatchedWhenNoneRaises ==
    ~SomeDispatchRaised => C28_OthersStillDispatched

\* C30: no task stays RUNNING: every execution of every kind returns, by
\* the executor's timeout at the latest, and the loop is never held in a
\* job for good.
C30_NoTaskStaysRunning ==
    /\ pc # "hung"
    /\ \A id \in DOMAIN tasks : tasks[id].status # "running"

\* The same of the tasks whose child is started with timeout=300.
C30_TimedKindsReturn ==
    \A id \in DOMAIN tasks :
        tasks[id].task_type \in {"command", "script"}
        => tasks[id].status # "running"

\* C31: a dispatch of a task changes no row of another task, adds and
\* removes no row, leaves the dependency edges as they are and keeps every
\* log entry that was there, whatever the outcome.
C31_ExecutionFrame ==
    [][\A id \in DOMAIN tasks :
           dispatched'[id] # dispatched[id]
           => /\ DOMAIN db'.rows = DOMAIN db.rows
              /\ \A other \in DOMAIN db.rows \ {id} :
                     db'.rows[other] = db.rows[other]
              /\ \A other \in DOMAIN tasks \ {id} :
                     tasks'[other] = tasks[other]
              /\ db'.deps = db.deps
              /\ Len(db'.logs) >= Len(db.logs)
              /\ SubSeq(db'.logs, 1, Len(db.logs)) = db.logs]_vars

\* A dispatch has run next to another task's row, edges and older entries.
C31_Witness ==
    /\ lastRun.task # None
    /\ Cardinality(DOMAIN db.rows) = 2
    /\ db.deps # {}
    /\ lastRun.logsBefore >= 1
    /\ Len(db.logs) > lastRun.logsBefore

\* C32: the execution log is append-only: a step other than a retention
\* sweep keeps every entry as it is, in its place, and a sweep only removes
\* entries.
C32_LogAppendOnly ==
    [][IF swept' # swept
       THEN LET IsLeft(entry) ==
                    \E i \in 1..Len(db'.logs) : db'.logs[i] = entry
            IN  db'.logs = SelectSeq(db.logs, IsLeft)
       ELSE /\ Len(db'.logs) >= Len(db.logs)
            /\ SubSeq(db'.logs, 1, Len(db.logs)) = db.logs]_vars

\* A second entry was appended, and a sweep has removed one entry of the
\* two and kept the other.
C32_Witness ==
    /\ swept # NoSweep
    /\ Len(swept.before.logs) = 2
    /\ Len(db.logs) = 1

\* C33: there is no retry and no dependency gating: no execution changes a
\* retry count, a task is dispatched at most once in a tick and no more
\* often than there were ticks, and a task that is due at every tick is
\* dispatched by the third tick after its registration, with or without
\* dependency edges.
C33_NoRetryNoGating ==
    /\ \A id \in DOMAIN tasks :
           /\ tasks[id].retry_count = 0
           /\ db.rows[id].retry_count = Some(0)
           /\ dispatched[id] <= ticks
           /\ Cardinality({i \in DOMAIN tickOrder : tickOrder[i].task = id})
                  <= 1
    /\ \A id \in SteadyTasks :
           ticks >= reg[id].tick + 3 /\ TickFinished => dispatched[id] > 0

\* Task 2 depends on task 1, which has not completed; task 2 has failed and
\* has been dispatched by its trigger again.
C33_Witness ==
    /\ db.deps = {<<2, 1>>}
    /\ 2 \in DOMAIN tasks
    /\ tasks[1].status # "completed"
    /\ tasks[2].status = "failed"
    /\ dispatched[2] >= 2
    /\ TickFinished

\* C34: a trigger registered through one TaskScheduler object is dispatched
\* by the loop of that object only: the loop thread of another object never
\* runs its job.
C34_InstancesIndependent ==
    \A th \in ThreadsOfKind("other") : threads[th].task = None

\* Stopping the first object takes no job from the list.
C34_StopKeepsTriggers ==
    [][running /\ ~running' => jobs' = jobs]_vars

\* The enabled tasks in the store whose INTERVAL trigger is due at every
\* tick.
StoredSteady ==
    {id \in DOMAIN db.rows :
         LET task == LoadTaskFromDb(db, id)
         IN  /\ task # NoTask
             /\ task.enabled
             /\ task.trigger_type = "interval"
             /\ IntervalUnit(task.trigger_data) = "seconds"
             /\ task.trigger_data.seconds <= CheckInterval}

\* C35: an enabled task in the store with a recurring trigger is dispatched
\* by the running scheduler once its trigger is due, also when it was stored
\* before the scheduler process started: the third tick after it was stored
\* does not end without a dispatch of it.
C35_StoredTasksDispatched ==
    \A id \in StoredSteady :
        ticks >= reg[id].tick + 3 /\ TickFinished => dispatched[id] > 0

\* The same of the tasks whose job is in the job list of the process.
C35_RegisteredTasksDispatched ==
    \A id \in StoredSteady :
        /\ JobsOf(id) # {}
        /\ ticks >= reg[id].tick + 3
        /\ TickFinished
        => dispatched[id] > 0

\* The loop threads of the scheduler that have not ended.
LiveLoops ==
    {th \in ThreadsOfKind("loop") : threads[th].pc # "exited"}

\* C36: after any sequence of run_scheduler and stop_scheduler calls at most
\* one loop thread of the scheduler is alive.
C36_OneLiveLoop == Cardinality(LiveLoops) <= 1

\* While the flag is cleared no loop thread begins a tick.
C36_NoTickWhenStopped ==
    [][~running
       => \A th \in DOMAIN threads :
              threads[th].pc = "idle" => threads'[th].pc # "run"]_vars

\* C37: when the save inside schedule_task fails, schedule_task returns
\* False, registers no trigger and leaves the task without an id.
C37_FailedSaveLeavesNoId ==
    rejected # NoReject => rejected.id = None

\* The same without the id: the failed call changes neither the store nor
\* the job list.
C37_FailedSaveRegistersNothing ==
    [][rejected' # rejected => jobs' = jobs /\ db' = db]_vars

\* The latest dispatch ran a COMMAND or SCRIPT task to its end: _execute_task
\* returned True or False after the gate admitted the command.
LastRunFinishedChild ==
    /\ LastRunAdmitted
    /\ lastRun.before.task_type \in {"command", "script"}
    /\ lastRun.ret \in {"True", "False"}

\* C38: after every finished COMMAND or SCRIPT execution the task is
\* COMPLETED exactly when its recorded result code is 0; a FAILED task never
\* carries result code 0.
C38_StatusAgreesWithCode ==
    [][lastRun' # lastRun =>
         (LastRunFinishedChild' =>
            (tasks'[lastRun'.task].status = "completed"
                <=> tasks'[lastRun'.task].result_code = 0))]_vars

\* The part of C38 that the code keeps: when the child process returned, the
\* status is COMPLETED exactly when the return code stored by that execution
\* is 0.
C38_ReturnedChildAgrees ==
    [][lastRun' # lastRun =>
         (LastRunFinishedChild' /\ lastRun'.outcome.kind = "exit" =>
            /\ tasks'[lastRun'.task].result_code = lastRun'.outcome.code
            /\ tasks'[lastRun'.task].status = "completed"
                  <=> lastRun'.outcome.code = 0)]_vars

LoopExecutions ==
    {th \in DOMAIN threads :
         threads[th].kind = "loop" /\ threads[th].pc = "exec"}

\* The executions of one task that are in progress.
ExecutionsOf(id) ==
    {th \in DOMAIN threads :
         threads[th].pc = "exec" /\ threads[th].task = id}

\* C25: at every moment the executions in progress under the scheduler are
\* no more than the configured cap.
C25_ExecutionsWithinCap == Cardinality(LoopExecutions) <= MaxConcurrentTasks

\* The same while run_scheduler has been called once.
C25_OneLoopWithinCap ==
    Cardinality({th \in DOMAIN threads : threads[th].kind = "loop"}) <= 1
    => Cardinality(LoopExecutions) <= 1

\* C29: at any moment at most one execution of a task id is in progress.
C29_OneExecutionPerTask ==
    \A id \in DOMAIN tasks : Cardinality(ExecutionsOf(id)) <= 1

EventTriggered ==
    {id \in DOMAIN tasks :
         tasks[id].trigger_type \in {"file_change", "system_event"}}

\* C24: a task with a FILE_CHANGE or SYSTEM_EVENT trigger is accepted by
\* schedule_task: it is stored under its id, and no tick ever dispatches it.
C24_EventTasksNeverDispatched ==
    \A id \in EventTriggered :
        /\ LoadTaskFromDb(db, id) # NoTask
        /\ LoadTaskFromDb(db, id).trigger_type = tasks[id].trigger_type
        /\ JobsOf(id) = {}
        /\ dispatched[id] = 0
        /\ tasks[id].status = "pending"

\* Two ticks have passed over such a task while another task was dispatched.
C24_Witness ==
    /\ \E id \in EventTriggered : ticks >= reg[id].tick + 2
    /\ \E id \in DOMAIN tasks : dispatched[id] > 0
    /\ TickFinished

\* The last dispatch as it would have gone had every notification been
\* delivered.
LastRunDelivered ==
    ExecuteTask(db, lastRun.before, [lastRun.outcome EXCEPT !.delivery = "ok"],
                lastRun.at, allowed, blocked)

C21_NotifyKindsComplete ==
    /\ lastRun.task # None
    /\ lastRun.before.enabled
    /\ lastRun.before.task_type \in {"reminder", "notification"}
    => LET task == tasks[lastRun.task]
       IN  \/ task.status = "completed" /\ task.result_code = 0
           \/ /\ lastRun.outcome.kind = "error"
              /\ task.status = "failed"
              /\ task.output = lastRun.outcome.out

\* C12: once a task T has been saved, loaded by its id and saved again (and
\* never executed), every field of the stored task, read back, equals the
\* field of T as it was first handed to the store.
C12_SaveLoadSaveKeepsFields ==
    \A id \in resaved :
        dispatched[id] = 0 /\ id \in DOMAIN db.rows
            => LoadTaskFromDb(db, id) = [reg[id].given EXCEPT !.id = id]

\* C15: a task keeps the id the store gave it at its first save (the key it
\* is known by since schedule_task returned) through every later save,
\* execution and failed save.
C15_IdImmutable ==
    \A id \in DOMAIN tasks : tasks[id].id = id /\ id \in 1..db.seq

\* A task that was saved again and executed, the execution with the database
\* refusing its saves (the status in memory is not the stored one).
C15_Witness ==
    \E id \in resaved :
        /\ dispatched[id] >= 1
        /\ id \in DOMAIN db.rows
        /\ db.rows[id].status # Some(tasks[id].status)
        /\ tasks[id].id = id

\* The cutoff of a sweep at the present clock, and what is strictly older.
Cutoff == now - CleanupDays * DaySeconds
OlderThanCutoff(text) == text # EmptyStr /\ FromIsoFormat(text) < Cutoff
RecentLogs(logs) ==
    LET IsRecent(entry) == ~OlderThanCutoff(entry.execution_time)
    IN  SelectSeq(logs, IsRecent)

\* C16: a sweep removes every task that was executed, is in a terminal status
\* and was executed strictly before the cutoff, and every log entry strictly
\* older than the cutoff.
C16_SweepRemovesOld ==
    [][swept' # swept =>
          /\ \A id \in DOMAIN db.rows :
                 /\ dispatched[id] >= 1
                 /\ tasks[id].status \in TerminalStatuses
                 /\ OlderThanCutoff(tasks[id].executed_at)
                 => id \notin DOMAIN db'.rows
          /\ db'.logs = RecentLogs(db.logs)]_vars

\* C17: a sweep leaves as they were every task in a non-terminal status,
\* every terminal task not executed before the cutoff, and every log entry
\* not older than the cutoff.
C17_SweepKeepsTheRest ==
    [][swept' # swept =>
          /\ \A id \in DOMAIN db.rows :
                 \/ db.rows[id].status[1] \notin TerminalStatuses
                 \/ ~OlderThanCutoff(tasks[id].executed_at)
                 => /\ id \in DOMAIN db'.rows
                    /\ db'.rows[id] = db.rows[id]
          /\ RecentLogs(db'.logs) = RecentLogs(db.logs)
          /\ tasks' = tasks]_vars

\* A sweep has just removed a log entry and kept another, written exactly at
\* the cutoff, together with the terminal task executed at that moment.
C17_Witness ==
    /\ swept # NoSweep
    /\ swept.at = now
    /\ db = CleanupOldTasks(swept.before, now)
    /\ Len(db.logs) = 1
    /\ Len(swept.before.logs) = 2
    /\ db.logs[1].execution_time = IsoFormat(Cutoff)
    /\ \E id \in DOMAIN db.rows :
           /\ db.rows[id].status[1] \in TerminalStatuses
           /\ tasks[id].executed_at = IsoFormat(Cutoff)

\* C18: whatever a dispatched task does (denial, non-zero exit, timeout, an
\* exception in the child's start or in the security check), the loop thread
\* stays in its loop: it ends only once a stop has been requested, and after
\* every dispatch it is on its way to the sleep that precedes the next tick.
C18_LoopSurvivesFailures ==
    [][/\ pc' = "exited" /\ pc # "exited" => ~running'
       /\ lastRun' # lastRun => pc' = "run"]_vars

\* A tick has begun after the one in which the security check raised, with
\* no stop requested.
C18_Witness ==
    /\ lastRun.task # None
    /\ lastRun.ret = "IndexError"
    /\ ticks > lastRun.tick
    /\ running
    /\ pc = "run"

\* C19: at the moment stop_scheduler returns, the loop thread has ended (or
\* was never started), the jobs of its tick having run to their end.
C19_StopJoinsLoop ==
    [][joined' # joined => pc' \in {"none", "exited"} /\ queue' = <<>>]_vars

\* C20: a dispatch of a disabled task starts no child, leaves the store, its
\* logs, the task and its status as they were and sends nothing, and the
\* task's trigger stays in the job list, armed for its next period.
C20_DisabledNeverExecuted ==
    [][\A id \in DOMAIN tasks :
          dispatched'[id] = dispatched[id] + 1 /\ ~tasks[id].enabled =>
              /\ lastRun'.spawned = 0
              /\ spawned' = spawned
              /\ db' = db
              /\ tasks' = tasks
              /\ notes' = notes
              /\ Len(jobs') = Len(jobs)
              /\ \A j \in JobsOf(id) :
                     /\ jobs'[j].task = id
                     /\ jobs'[j].period = jobs[j].period
                     /\ jobs'[j].next_run >= now' + jobs[j].period]_vars

\* A disabled task dispatched twice by its trigger and still PENDING, with
\* nothing logged for it.
C20_Witness ==
    \E id \in DOMAIN tasks :
        /\ ~tasks[id].enabled
        /\ dispatched[id] = 2
        /\ lastRun.task = id
        /\ tasks[id].status = "pending"
        /\ db.rows[id].status = Some("pending")
        /\ spawned[id] = 0
        /\ \A i \in 1..Len(db.logs) : db.logs[i].task_id # id

====
